---- MODULE Spec2Model ----
(***************************************************************************)
(* Feature-based name screening (sdn_api/core/traditional_matcher.py).     *)
(*                                                                         *)
(* A Python str is a sequence of character codes (ASCII).  A Python float  *)
(* is an exact rational <<numerator, denominator>> in lowest terms with a  *)
(* positive denominator, so 0.3 is <<3, 10>>.  An Optional[str] is a       *)
(* record [present, value].                                                *)
(***************************************************************************)
EXTENDS Integers, Sequences, FiniteSets, TLC

\* ------------------------------------------------------------------------
\* Arithmetic on exact rationals
\* ------------------------------------------------------------------------
Min(S) == CHOOSE x \in S : \A y \in S : x <= y
Max(S) == CHOOSE x \in S : \A y \in S : x >= y
Abs(n) == IF n < 0 THEN -n ELSE n

RECURSIVE GCD(_, _)
GCD(a, b) == IF b = 0 THEN a ELSE GCD(b, a % b)

LCM(a, b) == (a \div GCD(a, b)) * b

R(n, d) == LET g == GCD(Abs(n), d) IN <<n \div g, d \div g>>

Zero == <<0, 1>>
One == <<1, 1>>

RAdd(a, b) == LET l == LCM(a[2], b[2])
              IN R(a[1] * (l \div a[2]) + b[1] * (l \div b[2]), l)
RSub(a, b) == RAdd(a, <<-b[1], b[2]>>)
RMul(a, b) == LET x == R(a[1], b[2])
                  y == R(b[1], a[2])
              IN <<x[1] * y[1], x[2] * y[2]>>
\* a / b for b > 0
RDiv(a, b) == RMul(a, <<b[2], b[1]>>)
RLe(a, b) == LET l == LCM(a[2], b[2])
             IN a[1] * (l \div a[2]) <= b[1] * (l \div b[2])
RLt(a, b) == ~RLe(b, a)
RGe(a, b) == RLe(b, a)
RGt(a, b) == ~RLe(a, b)
RMax(a, b) == IF RLe(a, b) THEN b ELSE a

\* ------------------------------------------------------------------------
\* str methods
\* ------------------------------------------------------------------------
IsSpace(c) == c \in {9, 10, 11, 12, 13, 28, 29, 30, 31, 32}
IsDigit(c) == c \in 48..57
LowerChar(c) == IF c \in 65..90 THEN c + 32 ELSE c
UpperChar(c) == IF c \in 97..122 THEN c - 32 ELSE c

lower(s) == [i \in 1..Len(s) |-> LowerChar(s[i])]
upper(s) == [i \in 1..Len(s) |-> UpperChar(s[i])]
Reverse(s) == [i \in 1..Len(s) |-> s[Len(s) + 1 - i]]

strip(s) == LET idx == {i \in 1..Len(s) : ~IsSpace(s[i])}
            IN IF idx = {} THEN <<>> ELSE SubSeq(s, Min(idx), Max(idx))

\* s.split(c): the segments between occurrences of c, empty ones included
RECURSIVE split_on(_, _)
split_on(s, c) ==
    LET at == {i \in 1..Len(s) : s[i] = c}
    IN IF at = {} THEN <<s>>
       ELSE <<SubSeq(s, 1, Min(at) - 1)>>
                \o split_on(SubSeq(s, Min(at) + 1, Len(s)), c)

\* s.split(): the maximal runs of non-whitespace characters
RECURSIVE split(_)
split(s) ==
    LET idx == {i \in 1..Len(s) : ~IsSpace(s[i])}
    IN IF idx = {} THEN <<>>
       ELSE LET b == Min(idx)
                sp == {i \in b..Len(s) : IsSpace(s[i])}
                e == IF sp = {} THEN Len(s) ELSE Min(sp) - 1
            IN <<SubSeq(s, b, e)>> \o split(SubSeq(s, e + 1, Len(s)))

\* sub in s
Contains(s, sub) ==
    \E i \in 1..(Len(s) - Len(sub) + 1) : SubSeq(s, i, i + Len(sub) - 1) = sub

\* sep.join(parts)
RECURSIVE join(_, _)
join(sep, parts) ==
    IF parts = <<>> THEN <<>>
    ELSE IF Len(parts) = 1 THEN parts[1]
    ELSE parts[1] \o sep \o join(sep, Tail(parts))

\* s1 < s2 in Python's str ordering
RECURSIVE StrLess(_, _)
StrLess(s1, s2) ==
    IF s2 = <<>> THEN FALSE
    ELSE IF s1 = <<>> THEN TRUE
    ELSE IF s1[1] # s2[1] THEN s1[1] < s2[1]
    ELSE StrLess(Tail(s1), Tail(s2))

\* sorted(S) for a set of strings
RECURSIVE sorted(_)
sorted(S) ==
    IF S = {} THEN <<>>
    ELSE LET m == CHOOSE x \in S : \A y \in S \ {x} : StrLess(x, y)
         IN <<m>> \o sorted(S \ {m})

SeqToSet(s) == {s[i] : i \in 1..Len(s)}

\* ------------------------------------------------------------------------
\* difflib.SequenceMatcher(None, a, b).ratio(), for len(b) < 200 (no
\* automatic junk heuristic) and no junk predicate
\* ------------------------------------------------------------------------
\* length of the run of equal characters starting at a[i], b[j]
RECURSIVE RunLen(_, _, _, _, _, _)
RunLen(a, b, i, j, ahi, bhi) ==
    IF i > ahi \/ j > bhi \/ a[i] # b[j] THEN 0
    ELSE 1 + RunLen(a, b, i + 1, j + 1, ahi, bhi)

\* find_longest_match over a[alo..ahi], b[blo..bhi] (inclusive, 1-based):
\* the longest block, the earliest in a, then the earliest in b
find_longest_match(a, b, alo, ahi, blo, bhi) ==
    LET P == (alo..ahi) \X (blo..bhi)
        len == [p \in P |-> RunLen(a, b, p[1], p[2], ahi, bhi)]
        best == IF P = {} THEN 0 ELSE Max({len[p] : p \in P})
    IN IF best = 0 THEN <<alo, blo, 0>>
       ELSE LET i == Min({p[1] : p \in {q \in P : len[q] = best}})
                j == Min({p[2] : p \in {q \in P : q[1] = i /\ len[q] = best}})
            IN <<i, j, best>>

\* sum of the sizes of get_matching_blocks()
RECURSIVE MatchingSize(_, _, _, _, _, _)
MatchingSize(a, b, alo, ahi, blo, bhi) ==
    IF alo > ahi \/ blo > bhi THEN 0
    ELSE LET m == find_longest_match(a, b, alo, ahi, blo, bhi)
         IN IF m[3] = 0 THEN 0
            ELSE m[3] + MatchingSize(a, b, alo, m[1] - 1, blo, m[2] - 1)
                      + MatchingSize(a, b, m[1] + m[3], ahi, m[2] + m[3], bhi)

ratio(a, b) ==
    IF Len(a) + Len(b) = 0 THEN One
    ELSE R(2 * MatchingSize(a, b, 1, Len(a), 1, Len(b)), Len(a) + Len(b))

\* ------------------------------------------------------------------------
\* String distance algorithms
\* ------------------------------------------------------------------------
\* one row of the distance matrix: dp[i][0..len2] from dp[i-1]
RECURSIVE LevRow(_, _, _, _, _)
LevRow(s1, s2, i, prev, acc) ==
    IF Len(acc) = Len(s2) + 1 THEN acc
    ELSE LET j == Len(acc)
             cost == IF s1[i] = s2[j] THEN 0 ELSE 1
             v == Min({prev[j + 1] + 1, acc[j] + 1, prev[j] + cost})
         IN LevRow(s1, s2, i, prev, Append(acc, v))

RECURSIVE LevRows(_, _, _, _)
LevRows(s1, s2, i, prev) ==
    IF i > Len(s1) THEN prev
    ELSE LevRows(s1, s2, i + 1, LevRow(s1, s2, i, prev, <<i>>))

\* an empty argument gives 0.0 also when both are empty
_levenshtein_similarity_EmptyZero(s1, s2) ==
    IF s1 = <<>> \/ s2 = <<>> THEN Zero
    ELSE LET len1 == Len(s1)
             len2 == Len(s2)
             row0 == [j \in 1..(len2 + 1) |-> j - 1]
             distance == LevRows(s1, s2, 1, row0)[len2 + 1]
             max_len == Max({len1, len2})
         IN IF max_len > 0 THEN RSub(One, R(distance, max_len)) ELSE One

_levenshtein_similarity(s1, s2) ==
    IF s1 = <<>> \/ s2 = <<>> THEN (IF s1 # s2 THEN Zero ELSE One)
    ELSE LET len1 == Len(s1)
             len2 == Len(s2)
             row0 == [j \in 1..(len2 + 1) |-> j - 1]
             distance == LevRows(s1, s2, 1, row0)[len2 + 1]
             max_len == Max({len1, len2})
         IN IF max_len > 0 THEN RSub(One, R(distance, max_len)) ELSE One

\* the match-finding loop: for each i the first unmatched j of the window
\* with s1[i] = s2[j]; returns <<s1_matches, s2_matches>> as index sets
RECURSIVE JaroMatches(_, _, _, _, _, _)
JaroMatches(s1, s2, md, i, m1, m2) ==
    IF i > Len(s1) THEN <<m1, m2>>
    ELSE LET start == Max({1, i - md})
             end == Min({i + md, Len(s2)})
             hit == {j \in start..end : j \notin m2 /\ s1[i] = s2[j]}
         IN IF hit = {} THEN JaroMatches(s1, s2, md, i + 1, m1, m2)
            ELSE JaroMatches(s1, s2, md, i + 1,
                             m1 \cup {i}, m2 \cup {Min(hit)})

\* the transposition loop; -1 when k runs past the end of s2 (IndexError)
RECURSIVE JaroTranspositions(_, _, _, _, _, _, _)
JaroTranspositions(s1, s2, m1, m2, i, k, t) ==
    IF i > Len(s1) THEN t
    ELSE IF i \notin m1 THEN JaroTranspositions(s1, s2, m1, m2, i + 1, k, t)
    ELSE LET rest == {j \in k..Len(s2) : j \in m2}
         IN IF rest = {} THEN -1
            ELSE LET k2 == Min(rest)
                 IN JaroTranspositions(s1, s2, m1, m2, i + 1, k2 + 1,
                        IF s1[i] # s2[k2] THEN t + 1 ELSE t)

IndexError == <<-1, 1>>

\* the boost forgets the factor (1 - jaro)
WinklerBoost_NoDamping(jaro, prefix_len) == RAdd(jaro, R(prefix_len, 10))

\* jaro + prefix_len * winkler_prefix * (1 - jaro), winkler_prefix = 0.1
WinklerBoost(jaro, prefix_len) ==
    RAdd(jaro, RMul(R(prefix_len, 10), RSub(One, jaro)))

_jaro_winkler(s1, s2) ==
    IF s1 = <<>> \/ s2 = <<>> THEN (IF s1 # s2 THEN Zero ELSE One)
    ELSE IF s1 = s2 THEN One
    ELSE LET len1 == Len(s1)
             len2 == Len(s2)
             match_distance == Max({0, (Max({len1, len2}) \div 2) - 1})
             mm == JaroMatches(s1, s2, match_distance, 1, {}, {})
             matches == Cardinality(mm[1])
         IN IF matches = 0 THEN Zero
            ELSE LET transpositions ==
                         JaroTranspositions(s1, s2, mm[1], mm[2], 1, 1, 0)
                     jaro == RDiv(RAdd(RAdd(R(matches, len1), R(matches, len2)),
                                       R(2 * matches - transpositions, 2 * matches)),
                                  <<3, 1>>)
                     lim == Min({4, len1, len2})
                     diff == {i \in 1..lim : s1[i] # s2[i]}
                     prefix_len == IF diff = {} THEN lim ELSE Min(diff) - 1
                 IN IF transpositions < 0 THEN IndexError
                    ELSE WinklerBoost(jaro, prefix_len)

SoundexCode(c) ==
    IF c \in {66, 70, 80, 86} THEN <<49>>
    ELSE IF c \in {67, 71, 74, 75, 81, 83, 88, 90} THEN <<50>>
    ELSE IF c \in {68, 84} THEN <<51>>
    ELSE IF c = 76 THEN <<52>>
    ELSE IF c \in {77, 78} THEN <<53>>
    ELSE IF c = 82 THEN <<54>>
    ELSE <<>>

RECURSIVE SoundexLoop(_, _)
SoundexLoop(rest, soundex) ==
    IF rest = <<>> THEN soundex
    ELSE LET code == SoundexCode(rest[1])
             sx == IF code # <<>> /\ code[1] # soundex[Len(soundex)]
                   THEN soundex \o code ELSE soundex
         IN IF Len(sx) = 4 THEN sx ELSE SoundexLoop(Tail(rest), sx)

ljust(s, width, fill) ==
    IF Len(s) >= width THEN s
    ELSE s \o [i \in 1..(width - Len(s)) |-> fill]

_soundex(s) ==
    IF s = <<>> THEN <<>>
    ELSE LET u == upper(s)
         IN ljust(SoundexLoop(Tail(u), <<u[1]>>), 4, 48)

Vowels == {65, 69, 73, 79, 85}

RECURSIVE MetaphoneLoop(_, _, _)
MetaphoneLoop(rest, result, prev) ==
    IF rest = <<>> THEN result
    ELSE IF rest[1] \notin Vowels /\ <<rest[1]>> # prev
         THEN MetaphoneLoop(Tail(rest), Append(result, rest[1]), <<rest[1]>>)
         ELSE MetaphoneLoop(Tail(rest), result, prev)

_metaphone(s) ==
    IF s = <<>> THEN <<>>
    ELSE LET result == MetaphoneLoop(upper(s), <<>>, <<>>)
         IN SubSeq(result, 1, Min({6, Len(result)}))

_ngram_similarity(s1, s2, n) ==
    IF Len(s1) < n \/ Len(s2) < n THEN Zero
    ELSE LET ngrams1 == {SubSeq(s1, i, i + n - 1) : i \in 1..(Len(s1) - n + 1)}
             ngrams2 == {SubSeq(s2, i, i + n - 1) : i \in 1..(Len(s2) - n + 1)}
             intersection == Cardinality(ngrams1 \cap ngrams2)
             union == Cardinality(ngrams1 \cup ngrams2)
         IN IF union > 0 THEN R(intersection, union) ELSE Zero

_token_set_ratio(s1, s2) ==
    LET tokens1 == SeqToSet(split(s1))
        tokens2 == SeqToSet(split(s2))
    IN IF tokens1 = {} \/ tokens2 = {} THEN Zero
       ELSE LET intersection == tokens1 \cap tokens2
                union == tokens1 \cup tokens2
                base_ratio == IF union # {}
                              THEN R(Cardinality(intersection), Cardinality(union))
                              ELSE Zero
                sorted1 == join(<<32>>, sorted(tokens1))
                sorted2 == join(<<32>>, sorted(tokens2))
                seq_ratio == ratio(sorted1, sorted2)
            IN RMax(base_ratio, seq_ratio)

RECURSIVE PartialBest(_, _, _, _)
PartialBest(short, long, i, best) ==
    IF i > Len(long) - Len(short) + 1 THEN best
    ELSE PartialBest(short, long, i + 1,
            RMax(best, ratio(short, SubSeq(long, i, i + Len(short) - 1))))

_partial_ratio(s1, s2) ==
    IF Len(s1) = 0 \/ Len(s2) = 0 THEN Zero
    ELSE IF Len(s1) > Len(s2) THEN PartialBest(s2, s1, 1, Zero)
    ELSE PartialBest(s1, s2, 1, Zero)

_common_prefix_length(s1, s2) ==
    LET lim == Min({Len(s1), Len(s2)})
        diff == {i \in 1..lim : s1[i] # s2[i]}
    IN IF diff = {} THEN lim ELSE Min(diff) - 1

_common_suffix_length(s1, s2) == _common_prefix_length(Reverse(s1), Reverse(s2))

\* ------------------------------------------------------------------------
\* Optional[str]
\* ------------------------------------------------------------------------
None == [present |-> FALSE, value |-> <<>>]
Some(s) == [present |-> TRUE, value |-> s]
\* Python truthiness of an Optional[str]: neither None nor ''
Truthy(o) == o.present /\ o.value # <<>>
\* (o or '')
OrEmpty(o) == IF Truthy(o) THEN o.value ELSE <<>>

\* ------------------------------------------------------------------------
\* TraditionalMatcher
\* ------------------------------------------------------------------------
\* the default threshold is the bound of the HIGH bucket
DefaultThreshold_High == <<4, 5>>

\* threshold: float = 0.3
DefaultThreshold == <<3, 10>>

\* 'exact_match': 10.0
FeatureWeights_HeavyExact ==
    [exact_match |-> R(1000, 100),
     case_insensitive_match |-> R(95, 100),
     levenshtein_similarity |-> R(70, 100),
     jaro_winkler_similarity |-> R(70, 100),
     soundex_match |-> R(50, 100),
     metaphone_match |-> R(50, 100),
     ngram_similarity |-> R(60, 100),
     token_set_ratio |-> R(65, 100),
     partial_ratio |-> R(50, 100),
     first_name_match |-> R(40, 100),
     last_name_match |-> R(50, 100),
     initials_match |-> R(30, 100),
     name_length_similarity |-> R(20, 100),
     common_prefix |-> R(30, 100),
     common_suffix |-> R(30, 100),
     alias_exact_match |-> R(90, 100),
     alias_similarity |-> R(60, 100),
     dob_exact_match |-> R(80, 100),
     dob_partial_match |-> R(40, 100),
     nationality_match |-> R(50, 100),
     country_in_remarks |-> R(30, 100)]

\* the last key is misspelt: 'country_remarks'
FeatureWeights_Typo ==
    [exact_match |-> R(100, 100),
     case_insensitive_match |-> R(95, 100),
     levenshtein_similarity |-> R(70, 100),
     jaro_winkler_similarity |-> R(70, 100),
     soundex_match |-> R(50, 100),
     metaphone_match |-> R(50, 100),
     ngram_similarity |-> R(60, 100),
     token_set_ratio |-> R(65, 100),
     partial_ratio |-> R(50, 100),
     first_name_match |-> R(40, 100),
     last_name_match |-> R(50, 100),
     initials_match |-> R(30, 100),
     name_length_similarity |-> R(20, 100),
     common_prefix |-> R(30, 100),
     common_suffix |-> R(30, 100),
     alias_exact_match |-> R(90, 100),
     alias_similarity |-> R(60, 100),
     dob_exact_match |-> R(80, 100),
     dob_partial_match |-> R(40, 100),
     nationality_match |-> R(50, 100),
     country_remarks |-> R(30, 100)]

FeatureWeights ==
    [exact_match |-> R(100, 100),
     case_insensitive_match |-> R(95, 100),
     levenshtein_similarity |-> R(70, 100),
     jaro_winkler_similarity |-> R(70, 100),
     soundex_match |-> R(50, 100),
     metaphone_match |-> R(50, 100),
     ngram_similarity |-> R(60, 100),
     token_set_ratio |-> R(65, 100),
     partial_ratio |-> R(50, 100),
     first_name_match |-> R(40, 100),
     last_name_match |-> R(50, 100),
     initials_match |-> R(30, 100),
     name_length_similarity |-> R(20, 100),
     common_prefix |-> R(30, 100),
     common_suffix |-> R(30, 100),
     alias_exact_match |-> R(90, 100),
     alias_similarity |-> R(60, 100),
     dob_exact_match |-> R(80, 100),
     dob_partial_match |-> R(40, 100),
     nationality_match |-> R(50, 100),
     country_in_remarks |-> R(30, 100)]

\* the order in which _extract_features inserts its keys
FeatureOrder ==
    <<"exact_match", "case_insensitive_match", "levenshtein_similarity",
      "jaro_winkler_similarity", "soundex_match", "metaphone_match",
      "ngram_similarity", "token_set_ratio", "partial_ratio",
      "first_name_match", "last_name_match", "initials_match",
      "name_length_similarity", "common_prefix", "common_suffix",
      "alias_exact_match", "alias_similarity", "dob_exact_match",
      "dob_partial_match", "nationality_match", "country_in_remarks">>

\* re.search(r'\d{1,2}[/-]\d{1,2}[/-]\d{2,4}', s)
IsDateSep(c) == c \in {45, 47}
DateLike(s) ==
    LET D(i) == i \in 1..Len(s) /\ IsDigit(s[i])
        P(i) == i \in 1..Len(s) /\ IsDateSep(s[i])
    IN \E p \in 1..Len(s) :
          /\ D(p) /\ P(p + 1) /\ D(p + 2)
          /\ \/ P(p + 3) /\ D(p + 4) /\ D(p + 5)
             \/ D(p + 3) /\ P(p + 4) /\ D(p + 5) /\ D(p + 6)

\* re.search(r'\d{4}', s)
HasFourDigits(s) ==
    \E p \in 1..(Len(s) - 3) : \A i \in p..(p + 3) : IsDigit(s[i])

\* a dob already found is kept: the first date-like segment wins
RECURSIVE ParseParts_FirstDob(_, _)
ParseParts_FirstDob(parts, result) ==
    IF parts = <<>> THEN result
    ELSE LET part == parts[1]
             isdob == DateLike(part) \/ (HasFourDigits(part) /\ Len(part) <= 10)
         IN ParseParts_FirstDob(Tail(parts),
               IF isdob
               THEN (IF result.dob.present THEN result
                     ELSE [result EXCEPT !.dob = Some(part)])
               ELSE [result EXCEPT !.nationality = Some(part)])

RECURSIVE ParseParts(_, _)
ParseParts(parts, result) ==
    IF parts = <<>> THEN result
    ELSE LET part == parts[1]
         IN ParseParts(Tail(parts),
               IF DateLike(part) THEN [result EXCEPT !.dob = Some(part)]
               ELSE IF HasFourDigits(part) /\ Len(part) <= 10
                    THEN [result EXCEPT !.dob = Some(part)]
               ELSE [result EXCEPT !.nationality = Some(part)])

\* the segments are not trimmed
_parse_query_Untrimmed(query) ==
    LET parts == split_on(query, 44)
    IN ParseParts(Tail(parts),
                  [name |-> parts[1], dob |-> None, nationality |-> None,
                   raw_query |-> query])

_parse_query(query) ==
    LET raw == split_on(query, 44)
        parts == [i \in 1..Len(raw) |-> strip(raw[i])]
    IN ParseParts(Tail(parts),
                  [name |-> parts[1], dob |-> None, nationality |-> None,
                   raw_query |-> query])

\* ''.join(p[0] for p in parts if p)
Initials(parts) == [i \in 1..Len(parts) |-> parts[i][1]]

\* re.sub(r'[^0-9]', '', s)
DigitsOnly(s) == SelectSeq(s, IsDigit)

\* the leading four digits are taken for the year
LastFour_Leading(s) == SubSeq(s, 1, 4)

LastFour(s) == SubSeq(s, Len(s) - 3, Len(s))
FirstFour(s) == SubSeq(s, 1, 4)

RECURSIVE BestAlias(_, _, _)
BestAlias(query_name, aliases, alias_sim) ==
    IF aliases = <<>> THEN alias_sim
    ELSE BestAlias(query_name, Tail(aliases),
                   RMax(alias_sim, _jaro_winkler(query_name, lower(aliases[1]))))

Bool(b) == IF b THEN One ELSE Zero

\* entry.name is None: AttributeError at entry.name.lower(); an IndexError
\* out of _jaro_winkler propagates likewise
ExtractRaises(query_info, entry) ==
    \/ ~entry.name.present
    \/ LET query_name == strip(lower(query_info.name))
           entry_name == strip(lower(entry.name.value))
           query_nat == lower(OrEmpty(query_info.nationality))
           entry_nat == lower(OrEmpty(entry.nationality))
       IN \/ _jaro_winkler(query_name, entry_name) = IndexError
          \/ \E i \in 1..Len(entry.aliases) :
                _jaro_winkler(query_name, lower(entry.aliases[i])) = IndexError
          \/ /\ query_nat # <<>> /\ entry_nat # <<>>
             /\ _jaro_winkler(query_nat, entry_nat) = IndexError

_extract_features(query_info, entry) ==
    LET query_name == strip(lower(query_info.name))
        entry_name == strip(lower(entry.name.value))
        query_parts == split(query_name)
        entry_parts == split(entry_name)
        query_initials == Initials(query_parts)
        entry_initials == Initials(entry_parts)
        max_len == Max({Len(query_name), Len(entry_name)})
        query_dob == query_info.dob
        both_dob == Truthy(query_dob) /\ Truthy(entry.dob)
        query_dob_clean == DigitsOnly(query_dob.value)
        entry_dob_clean == DigitsOnly(entry.dob.value)
        query_nat == lower(OrEmpty(query_info.nationality))
        entry_nat == lower(OrEmpty(entry.nationality))
    IN [exact_match |-> Bool(query_name = entry_name),
        case_insensitive_match |-> Bool(query_name = entry_name),
        levenshtein_similarity |-> _levenshtein_similarity(query_name, entry_name),
        jaro_winkler_similarity |-> _jaro_winkler(query_name, entry_name),
        soundex_match |-> Bool(_soundex(query_name) = _soundex(entry_name)),
        metaphone_match |-> Bool(_metaphone(query_name) = _metaphone(entry_name)),
        ngram_similarity |-> _ngram_similarity(query_name, entry_name, 2),
        token_set_ratio |-> _token_set_ratio(query_name, entry_name),
        partial_ratio |-> _partial_ratio(query_name, entry_name),
        first_name_match |->
            IF query_parts # <<>> /\ entry_parts # <<>>
            THEN _levenshtein_similarity(query_parts[1], entry_parts[1])
            ELSE Zero,
        last_name_match |->
            IF query_parts # <<>> /\ entry_parts # <<>>
            THEN _levenshtein_similarity(query_parts[Len(query_parts)],
                                         entry_parts[Len(entry_parts)])
            ELSE Zero,
        initials_match |->
            IF query_initials = entry_initials THEN One
            ELSE IF SeqToSet(query_initials) = SeqToSet(entry_initials)
                 THEN <<1, 2>> ELSE Zero,
        name_length_similarity |->
            IF max_len > 0
            THEN RSub(One, R(Abs(Len(query_name) - Len(entry_name)), max_len))
            ELSE Zero,
        common_prefix |->
            R(_common_prefix_length(query_name, entry_name),
              Max({Len(query_name), 1})),
        common_suffix |->
            R(_common_suffix_length(query_name, entry_name),
              Max({Len(query_name), 1})),
        alias_exact_match |->
            Bool(\E i \in 1..Len(entry.aliases) :
                    query_name = lower(entry.aliases[i])),
        alias_similarity |-> BestAlias(query_name, entry.aliases, Zero),
        dob_exact_match |->
            IF both_dob THEN Bool(query_dob_clean = entry_dob_clean) ELSE Zero,
        dob_partial_match |->
            IF both_dob
            THEN IF Len(query_dob_clean) >= 4 /\ Len(entry_dob_clean) >= 4
                 THEN IF LastFour(query_dob_clean) = LastFour(entry_dob_clean)
                      THEN <<7, 10>>
                      ELSE IF \/ Contains(entry_dob_clean, FirstFour(query_dob_clean))
                              \/ Contains(query_dob_clean, FirstFour(entry_dob_clean))
                           THEN <<1, 2>>
                           ELSE Zero
                 ELSE Zero
            ELSE Zero,
        nationality_match |->
            IF query_nat # <<>> /\ entry_nat # <<>>
            THEN _jaro_winkler(query_nat, entry_nat) ELSE Zero,
        country_in_remarks |->
            IF query_nat # <<>> /\ Truthy(entry.remarks)
            THEN Bool(Contains(lower(entry.remarks.value), query_nat))
            ELSE Zero]

\* self.feature_weights.get(feature_name, 0.5)
WeightOf(weights, feature_name) ==
    IF feature_name \in DOMAIN weights THEN weights[feature_name] ELSE <<1, 2>>

\* the accumulation loop over features.items()
RECURSIVE ScoreLoop(_, _, _, _, _)
ScoreLoop(weights, features, keys, weighted_sum, total_weight) ==
    IF keys = {} THEN <<weighted_sum, total_weight>>
    ELSE LET feature_name == CHOOSE k \in keys : TRUE
             weight == WeightOf(weights, feature_name)
         IN ScoreLoop(weights, features, keys \ {feature_name},
                      RAdd(weighted_sum, RMul(features[feature_name], weight)),
                      RAdd(total_weight, weight))

\* the weighted sum is divided by the number of non-zero features
_calculate_score_PerMatchedFeature(weights, features) ==
    LET nonzero == {k \in DOMAIN features : features[k] # Zero}
        sums == ScoreLoop(weights, features, DOMAIN features, Zero, Zero)
    IN IF nonzero = {} THEN Zero
       ELSE RDiv(sums[1], <<Cardinality(nonzero), 1>>)

\* the sum is normalised by the weights of the non-zero features only
_calculate_score_NonZeroWeights(weights, features) ==
    LET nonzero == {k \in DOMAIN features : features[k] # Zero}
        sums == ScoreLoop(weights, features, nonzero, Zero, Zero)
    IN IF sums[2] = Zero THEN Zero ELSE RDiv(sums[1], sums[2])

_calculate_score(weights, features) ==
    LET sums == ScoreLoop(weights, features, DOMAIN features, Zero, Zero)
        weighted_sum == sums[1]
        total_weight == sums[2]
    IN IF total_weight = Zero THEN Zero ELSE RDiv(weighted_sum, total_weight)

\* the lower bounds are exclusive
_score_to_confidence_Exclusive(score) ==
    IF RGt(score, <<4, 5>>) THEN "HIGH"
    ELSE IF RGt(score, <<3, 5>>) THEN "MEDIUM-HIGH"
    ELSE IF RGt(score, <<2, 5>>) THEN "MEDIUM"
    ELSE IF RGt(score, <<1, 5>>) THEN "LOW-MEDIUM"
    ELSE "LOW"

\* every bucket starts 0.1 lower
_score_to_confidence_Shifted(score) ==
    IF RGe(score, <<7, 10>>) THEN "HIGH"
    ELSE IF RGe(score, <<1, 2>>) THEN "MEDIUM-HIGH"
    ELSE IF RGe(score, <<3, 10>>) THEN "MEDIUM"
    ELSE IF RGe(score, <<1, 10>>) THEN "LOW-MEDIUM"
    ELSE "LOW"

_score_to_confidence(score) ==
    IF RGe(score, <<4, 5>>) THEN "HIGH"
    ELSE IF RGe(score, <<3, 5>>) THEN "MEDIUM-HIGH"
    ELSE IF RGe(score, <<2, 5>>) THEN "MEDIUM"
    ELSE IF RGe(score, <<1, 5>>) THEN "LOW-MEDIUM"
    ELSE "LOW"

\* round(x, 3) for x >= 0: the nearest multiple of 1/1000, halves to even
Round3(x) ==
    LET d == x[2]
        r0 == x[1] % d
        d1 == (10 * r0) \div d
        r1 == (10 * r0) % d
        d2 == (10 * r1) \div d
        r2 == (10 * r1) % d
        d3 == (10 * r2) \div d
        r3 == (10 * r2) % d
        floor == (x[1] \div d) * 1000 + d1 * 100 + d2 * 10 + d3
        up == 2 * r3 > d \/ (2 * r3 = d /\ floor % 2 = 1)
    IN R(IF up THEN floor + 1 ELSE floor, 1000)

\* the filter keeps every entry with a non-zero score
Keep_AnyScore(thr, score) == RGt(score, Zero)

\* if score >= self.threshold
Keep(thr, score) == RGe(score, thr)

\* the record appended to results for one retained entry
MatchResult(entry, score, features) ==
    LET Matched(k) == RGt(features[k], Zero)
    IN [entry |-> entry,
        score |-> score,
        features |-> features,
        confidence |-> _score_to_confidence(score),
        matched_features |-> SelectSeq(FeatureOrder, Matched),
        feature_count |-> Cardinality({k \in DOMAIN features : Matched(k)})]

\* ties are placed in front of the equal elements already sorted (what
\* sorting ascending and reversing the list would give)
InsertByScore_TiesFirst(sortedv, x) ==
    LET before == {i \in 1..Len(sortedv) : RGt(sortedv[i].score, x.score)}
        n == Cardinality(before)
    IN SubSeq(sortedv, 1, n) \o <<x>> \o SubSeq(sortedv, n + 1, Len(sortedv))

\* results.sort(key=lambda x: x['score'], reverse=True): list.sort is stable,
\* also with reverse=True, so an element goes behind every element whose
\* score is not smaller
InsertByScore(sortedv, x) ==
    LET before == {i \in 1..Len(sortedv) : RGe(sortedv[i].score, x.score)}
        n == Cardinality(before)
    IN SubSeq(sortedv, 1, n) \o <<x>> \o SubSeq(sortedv, n + 1, Len(sortedv))

RECURSIVE SortLoop(_, _)
SortLoop(rest, sortedv) ==
    IF rest = <<>> THEN sortedv
    ELSE SortLoop(Tail(rest), InsertByScore(sortedv, rest[1]))

\* the sort is left out: results stay in input order
sort_by_score_Unsorted(results) == results

sort_by_score(results) == SortLoop(results, <<>>)

\* results[-max_results:]: the tail of the list instead of its head
Truncate_Tail(results, max_results) ==
    IF max_results > 0
    THEN SubSeq(results, Max({1, Len(results) - max_results + 1}), Len(results))
    ELSE results

\* results[:max_results]
Truncate(results, max_results) ==
    IF max_results >= 0
    THEN SubSeq(results, 1, Min({max_results, Len(results)}))
    ELSE SubSeq(results, 1, Max({0, Len(results) + max_results}))

ResultDetail(r) ==
    [name |-> r.entry.name,
     score |-> Round3(r.score),
     confidence |-> r.confidence,
     feature_count |-> r.feature_count,
     features |-> [k \in {x \in DOMAIN r.features : RGt(r.features[x], Zero)}
                     |-> Round3(r.features[k])]]

StepDetails(weights, query_info, results) ==
    [method |-> "Traditional Feature-Based",
     total_features |-> Cardinality(DOMAIN weights),
     query_parsed |-> query_info,
     matches_found |-> Len(results),
     feature_weights |-> weights,
     results_detail |-> [i \in 1..Len(results) |-> ResultDetail(results[i])]]

\* ------------------------------------------------------------------------
\* Bounds and input pools
\* ------------------------------------------------------------------------
MaxEntries == 3
MaxResults == 2
MaxLen == 4

Entry(id, name, aliases, dob, nationality, remarks) ==
    [id |-> id, name |-> name, aliases |-> aliases, dob |-> dob,
     nationality |-> nationality, remarks |-> remarks]
PlainEntry(id, name) == Entry(id, Some(name), <<>>, None, None, None)

S_JohnSmith == <<74, 111, 104, 110, 32, 83, 109, 105, 116, 104>>
S_JonSmyth == <<74, 111, 110, 32, 83, 109, 121, 116, 104>>
S_ab == <<97, 98>>
S_a == <<97>>
S_x == <<120>>
S_1980 == <<49, 57, 56, 48>>

\* {name: "John Smith"}
E_JohnSmith == PlainEntry(<<49>>, S_JohnSmith)
\* {name: "ab"}
E_ab == PlainEntry(<<50>>, S_ab)
\* {name: "AB "}
E_AB == PlainEntry(<<51>>, <<65, 66, 32>>)
\* {name: "abb", aliases: ["ab"]}
E_abb == Entry(<<52>>, Some(<<97, 98, 98>>), <<S_ab>>, None, None, None)
\* {name: "a", aliases: [""], dob: "1980", nationality: "x", remarks: "x"}
E_a == Entry(<<53>>, Some(S_a), << <<>> >>, Some(S_1980), Some(S_x), Some(S_x))
\* {name: "ab b", remarks: "Type: x"}
E_ab_b == Entry(<<54>>, Some(<<97, 98, 32, 98>>), <<>>, None, None,
                Some(<<84, 121, 112, 101, 58, 32, 120>>))

EntryPool == {E_JohnSmith, E_ab, E_AB, E_abb, E_a, E_ab_b}

\* "John Smith", "Jon Smyth", "ab", "a", "", ",1980,x", "AB,1980,x"
Q_JohnSmith == S_JohnSmith
Q_JonSmyth == S_JonSmyth
Q_empty == <<>>
Q_empty_ctx == <<44, 49, 57, 56, 48, 44, 120>>
Q_AB_ctx == <<65, 66, 44, 49, 57, 56, 48, 44, 120>>
QueryPool == {Q_JohnSmith, Q_JonSmyth, S_ab, S_a, Q_empty, Q_empty_ctx, Q_AB_ctx}

SeqsUpTo(P, n) == UNION {[1..k -> P] : k \in 0..n}
EntryLists == SeqsUpTo(EntryPool, MaxEntries)
MaxResultsRange == (-1)..MaxResults

\* the pools of the repeated-call specification
IdemQueries == {S_ab, S_a, Q_AB_ctx}
IdemLists == SeqsUpTo({E_ab, E_abb}, MaxEntries)
IdemMaxResults == 1..MaxResults

\* the pools of the extractor specification: every name over {a, b} of at
\* most MaxLen characters, and the queries and entries above
FeatNames == SeqsUpTo({97, 98}, MaxLen)
FeatQueries == FeatNames \cup QueryPool
FeatEntries == {PlainEntry(<<48>>, n) : n \in FeatNames} \cup EntryPool

\* the pools of the specification with a record that lacks its name:
\* {id: "7", name: None}
E_noname == Entry(<<55>>, None, <<>>, None, None, None)
AnyEntryPool == {E_noname, E_ab, E_abb, E_a}
AnyQueries == {S_ab, S_a, Q_empty_ctx}
AnyLists == SeqsUpTo(AnyEntryPool, MaxEntries)

\* the pools of the specification of the confidence labels: matchers built
\* with threshold 0 and 0.3, the queries "ab" and "a,x", and entries that
\* fall into every bucket
\* {name: "ab", aliases: ["ab"], dob: "1980", nationality: "x", remarks: "x"}
E_ab_full == Entry(<<56>>, Some(S_ab), <<S_ab>>, Some(S_1980), Some(S_x), Some(S_x))
\* {name: "bbaa", aliases: ["ab"], remarks: "x"}
E_bbaa == Entry(<<57>>, Some(<<98, 98, 97, 97>>), <<S_ab>>, None, None, Some(S_x))
Q_a_x == <<97, 44, 120>>
Thresholds == {Zero, DefaultThreshold}
LabelQueries == {S_ab, Q_a_x}
LabelEntryPool == {E_ab, E_abb, E_ab_full, E_bbaa, E_JohnSmith}
LabelLists == SeqsUpTo(LabelEntryPool, MaxEntries)

\* the pools of the specification with a caller that writes to the returned
\* diagnostics
CallerQueries == {S_ab}
CallerLists == SeqsUpTo({E_ab, E_abb}, MaxEntries)
CallerKeys == {"exact_match", "alias_exact_match"}
CallerValues == {Zero, One}

\* the pools of the date-of-birth specification: the queries
\* "Maria Lopez, 1980", "ab", "ab,1980", "ab,15/03/1980", "ab,1/2/34", "ab,1503", "ab,19801503", "ab,x", "ab,1-2-34"
\* and entries named "ab" with no dob and with the dobs
\* "15/03/1980", "1980", "198", "1980-03-15", "03/15/80", "1503", "circa 1981", ""
\* and {name: "Maria Lopez", dob: "15/03/1980"}
Q_Maria == <<77, 97, 114, 105, 97, 32, 76, 111, 112, 101, 122, 44, 32, 49, 57, 56, 48>>
DobQueries ==
    {Q_Maria,
     <<97, 98>>,
     <<97, 98, 44, 49, 57, 56, 48>>,
     <<97, 98, 44, 49, 53, 47, 48, 51, 47, 49, 57, 56, 48>>,
     <<97, 98, 44, 49, 47, 50, 47, 51, 52>>,
     <<97, 98, 44, 49, 53, 48, 51>>,
     <<97, 98, 44, 49, 57, 56, 48, 49, 53, 48, 51>>,
     <<97, 98, 44, 120>>,
     <<97, 98, 44, 49, 45, 50, 45, 51, 52>>}
DobValues ==
    {<<49, 53, 47, 48, 51, 47, 49, 57, 56, 48>>,
     <<49, 57, 56, 48>>,
     <<49, 57, 56>>,
     <<49, 57, 56, 48, 45, 48, 51, 45, 49, 53>>,
     <<48, 51, 47, 49, 53, 47, 56, 48>>,
     <<49, 53, 48, 51>>,
     <<99, 105, 114, 99, 97, 32, 49, 57, 56, 49>>,
     <<>>}
E_Maria == Entry(<<58>>, Some(<<77, 97, 114, 105, 97, 32, 76, 111, 112, 101, 122>>), <<>>, Some(<<49, 53, 47, 48, 51, 47, 49, 57, 56, 48>>), None, None)
DobEntries ==
    {E_Maria, E_ab}
        \cup {Entry(<<59>>, Some(S_ab), <<>>, Some(d), None, None) : d \in DobValues}

\* the pools of the specification of case and blanks: the queries "ab",
\* " AB ", "ab,x", "AB , X" and four spellings of one entry
Q_ab_x == <<97, 98, 44, 120>>
VariantQueries == {S_ab, <<32, 65, 66, 32>>, Q_ab_x, <<65, 66, 32, 44, 32, 88>>}
\* {name: "ab", aliases: ["ab"], nationality: "x", remarks: "x"}
V_plain == Entry(<<60>>, Some(S_ab), <<S_ab>>, None, Some(S_x), Some(S_x))
\* {name: "AB", aliases: ["AB"], nationality: "X", remarks: "X"}
V_upper == Entry(<<60>>, Some(<<65, 66>>), <<<<65, 66>>>>, None, Some(<<88>>), Some(<<88>>))
\* {name: " ab ", aliases: ["ab"], nationality: "x", remarks: " x "}
V_padded_name == Entry(<<60>>, Some(<<32, 97, 98, 32>>), <<S_ab>>, None, Some(S_x), Some(<<32, 120, 32>>))
\* {name: "ab", aliases: [" ab"], nationality: " x", remarks: "x"}
V_padded_alias == Entry(<<60>>, Some(S_ab), <<<<32, 97, 98>>>>, None, Some(<<32, 120>>), Some(S_x))
VariantLists == SeqsUpTo({V_plain, V_upper, V_padded_name, V_padded_alias}, 1)

\* the pools of the parser specification: a name followed by at most
\* MaxSegments comma-separated segments out of
\* "1980", "1/2/34", "x", " us ", "", "a1980bcdefg", "a1980bcdef",
\* "01/02/2003 x"
MaxSegments == 2
ParseNames == {<<97>>, <<32, 97, 32>>}
ParseSegments ==
    {<<49, 57, 56, 48>>,
     <<49, 47, 50, 47, 51, 52>>,
     <<120>>,
     <<32, 117, 115, 32>>,
     <<>>,
     <<97, 49, 57, 56, 48, 98, 99, 100, 101, 102, 103>>,
     <<97, 49, 57, 56, 48, 98, 99, 100, 101, 102>>,
     <<48, 49, 47, 48, 50, 47, 50, 48, 48, 51, 32, 120>>}
RECURSIVE WithSegments(_, _)
WithSegments(name, segs) ==
    IF segs = <<>> THEN name
    ELSE WithSegments(name \o <<44>> \o segs[1], Tail(segs))
ParseQueries ==
    {WithSegments(n, ss) : n \in ParseNames,
                           ss \in SeqsUpTo(ParseSegments, MaxSegments)}

\* Calls whose entries are scored by concurrent tasks: the entries named
\* "ab" and "AB " have equal scores
TaskQueries == {S_ab, Q_AB_ctx}
TaskLists == SeqsUpTo({E_ab, E_AB, E_abb}, MaxEntries)
TaskMaxResults == {1, MaxEntries}

\* Strings for the Soundex code: a vowel, "h", two letters of code 1 and
\* one of code 2, up to MaxSoundexLen characters
MaxSoundexLen == 5
SoundexStrings == SeqsUpTo({97, 104, 98, 102, 107}, MaxSoundexLen)

\* Queries with and without context hints against entries with every
\* combination of aliases, dob, nationality and remarks
S_a_b == <<97, 32, 98>>
S_1999 == <<49, 57, 57, 57>>
S_y == <<121>>
S_zz == <<122, 122>>
ContextNames == {S_a, S_ab, S_a_b}
ContextHints == {<<>>, <<44>> \o S_1980, <<44>> \o S_x,
                 <<44>> \o S_1980 \o <<44>> \o S_x}
ContextQueries == {n \o h : n \in ContextNames, h \in ContextHints}
ContextEntries ==
    {Entry(<<61>>, Some(n), al, dob, nat, rem) :
        n \in ContextNames \cup {<<65, 66, 32>>},
        al \in {<<>>, <<S_zz>>, <<S_ab>>},
        dob \in {None, Some(S_1980), Some(S_1999)},
        nat \in {None, Some(S_x), Some(S_y)},
        rem \in {None, Some(S_x)}}
ContextLists == SeqsUpTo(ContextEntries, 1)

\* ------------------------------------------------------------------------
\* The csv module (excel dialect) and text-mode files
\* ------------------------------------------------------------------------
\* csv.writer: a field is quoted when it holds the delimiter, the quote
\* character or a line-terminator character; quotes inside it are doubled
NeedsQuote(field) == \E i \in 1..Len(field) : field[i] \in {44, 34, 13, 10}
QuoteField(field) ==
    IF NeedsQuote(field)
    THEN <<34>> \o join(<<34, 34>>, split_on(field, 34)) \o <<34>>
    ELSE field

\* writer.writerow(fields): the record, terminated by "\r\n"
writerow(fields) ==
    IF fields = << <<>> >> THEN <<34, 34, 13, 10>>
    ELSE join(<<44>>, [i \in 1..Len(fields) |-> QuoteField(fields[i])])
            \o <<13, 10>>

RECURSIVE writerows(_)
writerows(rows) ==
    IF rows = <<>> THEN <<>> ELSE writerow(rows[1]) \o writerows(Tail(rows))

\* open(path, 'r'): "\r\n" and "\r" are read as "\n"
UniversalNewlines(text) ==
    LET Kept(c) == c # -1
    IN SelectSeq([i \in 1..Len(text) |->
                    IF text[i] = 10 /\ i > 1 /\ text[i - 1] = 13 THEN -1
                    ELSE IF text[i] = 13 THEN 10 ELSE text[i]], Kept)

\* csv.reader over the text: the parser's state machine from the start of
\* a record to its end, a step for each special character and for each run
\* of characters kept as they are; the record and the position after it
RECURSIVE CsvScan(_, _, _, _, _)
CsvScan(text, i, state, field, row) ==
    IF i > Len(text) THEN <<Append(row, field), i>>
    ELSE LET c == text[i]
             \* the end of the run of kept characters that starts at i
             RunEnd(stops) ==
                 LET at == {n \in (i + 1)..Len(text) : text[n] \in stops}
                 IN IF at = {} THEN Len(text) + 1 ELSE Min(at)
         IN CASE state = "START_RECORD" /\ c = 10 -> <<<<>>, i + 1>>
              [] state \in {"START_RECORD", "START_FIELD"} /\ c = 34 ->
                    CsvScan(text, i + 1, "IN_QUOTED_FIELD", field, row)
              [] state = "IN_QUOTED_FIELD" /\ c = 34 ->
                    CsvScan(text, i + 1, "QUOTE_IN_QUOTED_FIELD", field, row)
              [] state = "IN_QUOTED_FIELD" /\ c # 34 ->
                    CsvScan(text, RunEnd({34}), "IN_QUOTED_FIELD",
                            field \o SubSeq(text, i, RunEnd({34}) - 1), row)
              [] state = "QUOTE_IN_QUOTED_FIELD" /\ c = 34 ->
                    CsvScan(text, i + 1, "IN_QUOTED_FIELD", Append(field, c),
                            row)
              [] state # "IN_QUOTED_FIELD" /\ state # "START_RECORD"
                    /\ c = 10 -> <<Append(row, field), i + 1>>
              [] state # "IN_QUOTED_FIELD" /\ c = 44 ->
                    CsvScan(text, i + 1, "START_FIELD", <<>>,
                            Append(row, field))
              [] OTHER ->
                    CsvScan(text, RunEnd({10, 44}), "IN_FIELD",
                            field \o SubSeq(text, i, RunEnd({10, 44}) - 1),
                            row)

\* the records of the text from position i on
RECURSIVE CsvRecords(_, _, _)
CsvRecords(text, i, rows) ==
    IF i > Len(text) THEN rows
    ELSE LET record == CsvScan(text, i, "START_RECORD", <<>>, <<>>)
         IN CsvRecords(text, record[2], Append(rows, record[1]))

\* list(csv.reader(open(path, 'r')))
reader(text) == CsvRecords(UniversalNewlines(text), 1, <<>>)

\* ------------------------------------------------------------------------
\* SDNDataLoader.load_entries
\* ------------------------------------------------------------------------
S_Aliases == <<65, 108, 105, 97, 115, 101, 115, 58>>

\* re.search(r'Aliases:\s*(.+)', details) tried at position p: \s* takes
\* the longest run of whitespace that leaves a character other than "\n"
\* for the group, which then runs to the end of that line
AliasMatchAt(details, p) ==
    LET q == p + Len(S_Aliases)
        after == {i \in q..Len(details) : ~IsSpace(details[i])}
        run == IF after = {} THEN Len(details) + 1 - q ELSE Min(after) - q
        starts == {i \in q..(q + run) : i <= Len(details) /\ details[i] # 10}
    IN IF starts = {} THEN None
       ELSE LET b == Max(starts)
                nl == {i \in b..Len(details) : details[i] = 10}
                e == IF nl = {} THEN Len(details) ELSE Min(nl) - 1
            IN Some(SubSeq(details, b, e))

\* alias_match.group(1) of the leftmost match, None when nothing matches
AliasMatch(details) ==
    LET at == {p \in 1..(Len(details) + 1 - Len(S_Aliases)) :
                 /\ SubSeq(details, p, p + Len(S_Aliases) - 1) = S_Aliases
                 /\ AliasMatchAt(details, p).present}
    IN IF at = {} THEN None ELSE AliasMatchAt(details, Min(at))

\* lines 39, 46-49
ParseAliases(details) ==
    IF Contains(details, S_Aliases) /\ AliasMatch(details).present
    THEN LET parts == split_on(AliasMatch(details).value, 59)
         IN [i \in 1..Len(parts) |-> strip(parts[i])]
    ELSE <<>>

\* dob and nationality are filled from the details
BuildEntry_DetailsAsContext(row) ==
    Entry(row[1], Some(strip(row[2])), ParseAliases(row[3]), Some(row[3]),
          Some(row[3]), Some(row[3]))

\* lines 51-64: the entry built from a row of at least three columns (the
\* matcher reads none of type, program, title and pob)
BuildEntry(row) ==
    Entry(row[1], Some(strip(row[2])), ParseAliases(row[3]), None, None,
          Some(row[3]))

\* the loop stops after the row with index DebugRowLimit
DebugRowLimit == 10

\* lines 27-72, row_idx counting from 0
RECURSIVE LoadLoop(_, _, _)
LoadLoop(rows, row_idx, entries) ==
    IF row_idx >= Len(rows) THEN entries
    ELSE IF row_idx = 0 THEN LoadLoop(rows, 1, entries)
    ELSE LET row == rows[row_idx + 1]
             appended == IF Len(row) >= 3
                         THEN Append(entries, BuildEntry(row))
                         ELSE entries
         IN IF row_idx >= DebugRowLimit THEN appended
            ELSE LoadLoop(rows, row_idx + 1, appended)

load_entries(text) == LoadLoop(reader(text), 0, <<>>)

\* CSV files for the loader: the header and up to MaxRows data rows, the
\* k-th with uid chr(48 + k), name "a" and, when it is complete, details "x"
MaxRows == 11
S_uid == <<117, 105, 100>>
S_name == <<110, 97, 109, 101>>
S_details == <<100, 101, 116, 97, 105, 108, 115>>
HeaderRow == <<S_uid, S_name, S_details>>
DataRow(k, complete) ==
    IF complete THEN <<<<48 + k>>, S_a, S_x>> ELSE <<<<48 + k>>, S_a>>
LoadFiles ==
    {writerows(<<HeaderRow>> \o [k \in 1..n |-> DataRow(k, complete[k])]) :
        n \in 0..MaxRows, complete \in [1..MaxRows -> BOOLEAN]}

\* CSV files whose details mention dates of birth and nationalities, and
\* queries with hints that match them
S_DobNat ==
    <<68, 79, 66, 32, 49, 57, 56, 48, 59, 32, 110, 97, 116, 105, 111, 110,
      97, 108, 105, 116, 121, 32, 120>>
S_AliasesDob ==
    <<65, 108, 105, 97, 115, 101, 115, 58, 32, 97, 59, 32, 97, 98, 32, 124,
      32, 68, 79, 66, 58, 32, 49, 57, 56, 48>>
ScreenedRows ==
    {<<<<49>>, S_ab, S_x>>,
     <<<<50>>, S_a, S_DobNat>>,
     <<<<51>>, S_ab, S_AliasesDob>>,
     <<<<52>>, S_ab>>}
ScreenedFiles ==
    {writerows(<<HeaderRow>> \o rows) : rows \in SeqsUpTo(ScreenedRows, MaxEntries)}
Q_ab_1980_x == <<97, 98, 44, 49, 57, 56, 48, 44, 120>>
ScreenedQueries == {S_ab, Q_a_x, Q_ab_1980_x}

\* ------------------------------------------------------------------------
\* SDNAdvancedXMLtoCSVConverter: a DistinctParty element as the values the
\* converter reads from it: FixedRef, the first Comment (None when absent
\* or empty), the party type looked up for the profile (None when the
\* lookup gives nothing), the primary name, the non-primary names, and the
\* profile's features [type, value], programs and addresses (lists of
\* parts)
\* ------------------------------------------------------------------------
S_RemarksLabel == <<82, 101, 109, 97, 114, 107, 115, 58, 32>>
S_TypeLabel == <<84, 121, 112, 101, 58, 32>>
S_AliasesLabel == <<65, 108, 105, 97, 115, 101, 115, 58, 32>>
S_SemicolonSpace == <<59, 32>>
S_Bar == <<32, 124, 32>>
S_SanctionsProgramLabel ==
    <<83, 97, 110, 99, 116, 105, 111, 110, 115, 32, 80, 114, 111, 103, 114,
      97, 109, 58, 32>>
S_AddressLabel == <<65, 100, 100, 114, 101, 115, 115, 58, 32>>
S_CommaSpace == <<44, 32>>
S_ColonSpace == <<58, 32>>

\* extract_all_details(profile), lines 137-211: "type: value" for every
\* feature value, then the programs, then the addresses
extract_all_details(profile) ==
    [n \in 1..Len(profile.features) |->
        profile.features[n][1] \o S_ColonSpace \o profile.features[n][2]]
    \o [n \in 1..Len(profile.programs) |->
        S_SanctionsProgramLabel \o profile.programs[n]]
    \o [n \in 1..Len(profile.addresses) |->
        S_AddressLabel \o join(S_CommaSpace, profile.addresses[n])]

\* parse_distinct_party(party)['all_details'], lines 286-323
parse_distinct_party(party) ==
    (IF party.comment.present
     THEN <<S_RemarksLabel \o party.comment.value>> ELSE <<>>)
    \o (IF party.party_type.present
        THEN <<S_TypeLabel \o party.party_type.value>> ELSE <<>>)
    \o (IF party.aliases # <<>>
        THEN <<S_AliasesLabel \o join(S_SemicolonSpace, party.aliases)>>
        ELSE <<>>)
    \o extract_all_details(party.profile)

\* lines 366-378: the row of a party
ConvertRow(party) ==
    <<party.fixed_ref, party.primary_name,
      join(S_Bar, parse_distinct_party(party))>>

\* convert_to_csv, lines 354-391, for at least one party: the header and
\* one row a party (with no party the file is not written)
convert_to_csv(parties) ==
    writerows(<<HeaderRow>>
              \o [n \in 1..Len(parties) |-> ConvertRow(parties[n])])

\* the imports of one run and its repetitions
MaxImports == 2

\* XML files: parties with and without sections before and after the
\* aliases, two of them with the same FixedRef
MaxParties == 2
S_Birthdate == <<66, 105, 114, 116, 104, 100, 97, 116, 101>>
NoProfile == [features |-> <<>>, programs |-> <<>>, addresses |-> <<>>]
FullProfile ==
    [features |-> <<<<S_Birthdate, S_1980>>>>, programs |-> <<S_x>>,
     addresses |-> <<<<S_a, S_x>>>>]
Parties ==
    {[fixed_ref |-> ref, comment |-> before[1], party_type |-> before[2],
      primary_name |-> S_ab, aliases |-> aliases, profile |-> profile] :
        ref \in {<<49>>, <<50>>},
        before \in {<<None, None>>, <<Some(S_x), Some(S_x)>>},
        aliases \in {<<>>, <<S_a, S_ab>>},
        profile \in {NoProfile, FullProfile}}
PartyLists == SeqsUpTo(Parties, MaxParties) \ {<<>>}

\* ------------------------------------------------------------------------
\* OFACDatabaseManager.import_csv
\* ------------------------------------------------------------------------
S_primary_name == <<112, 114, 105, 109, 97, 114, 121, 95, 110, 97, 109, 101>>
S_party_type == <<112, 97, 114, 116, 121, 95, 116, 121, 112, 101>>
S_aliases == <<97, 108, 105, 97, 115, 101, 115>>
S_dates_of_birth ==
    <<100, 97, 116, 101, 115, 95, 111, 102, 95, 98, 105, 114, 116, 104>>
S_places_of_birth ==
    <<112, 108, 97, 99, 101, 115, 95, 111, 102, 95, 98, 105, 114, 116, 104>>
S_nationalities ==
    <<110, 97, 116, 105, 111, 110, 97, 108, 105, 116, 105, 101, 115>>
S_addresses == <<97, 100, 100, 114, 101, 115, 115, 101, 115>>
S_programs == <<112, 114, 111, 103, 114, 97, 109, 115>>
S_remarks == <<114, 101, 109, 97, 114, 107, 115>>
S_DobLabel == <<68, 79, 66, 58, 32>>
S_PobLabel == <<80, 79, 66, 58, 32>>
S_NationalityLabel ==
    <<78, 97, 116, 105, 111, 110, 97, 108, 105, 116, 121, 58, 32>>
S_ProgramsLabel == <<80, 114, 111, 103, 114, 97, 109, 115, 58, 32>>

\* lines 120-136: the columns the details are built from, with their labels
DetailColumns ==
    <<<<S_party_type, S_TypeLabel>>, <<S_aliases, S_AliasesLabel>>,
      <<S_dates_of_birth, S_DobLabel>>, <<S_places_of_birth, S_PobLabel>>,
      <<S_nationalities, S_NationalityLabel>>,
      <<S_addresses, S_AddressLabel>>, <<S_programs, S_ProgramsLabel>>,
      <<S_remarks, S_RemarksLabel>>>>

\* csv.DictReader: the first record names the columns, empty records after
\* it are skipped
DictHeader(text) == IF reader(text) = <<>> THEN <<>> ELSE reader(text)[1]
DictRows(text) ==
    LET NotEmpty(record) == record # <<>>
    IN IF reader(text) = <<>> THEN <<>>
       ELSE SelectSeq(Tail(reader(text)), NotEmpty)

\* row.get(key): the value of the last column with that name, None when
\* the record is too short or no column has that name
RowGet(header, record, key) ==
    LET at == {n \in 1..Len(header) : header[n] = key}
    IN IF at # {} /\ Max(at) <= Len(record) THEN Some(record[Max(at)])
       ELSE None

\* lines 116-117: row.get('primary_name', '') or row.get('name', '')
ImportName(header, record) ==
    IF Truthy(RowGet(header, record, S_primary_name))
    THEN RowGet(header, record, S_primary_name)
    ELSE IF \E n \in 1..Len(header) : header[n] = S_name
    THEN RowGet(header, record, S_name)
    ELSE Some(<<>>)

\* lines 119-138: the parts of the columns that hold a value, joined
RECURSIVE DetailsParts(_, _, _)
DetailsParts(header, record, n) ==
    IF n > Len(DetailColumns) THEN <<>>
    ELSE (IF Truthy(RowGet(header, record, DetailColumns[n][1]))
          THEN <<DetailColumns[n][2]
                   \o RowGet(header, record, DetailColumns[n][1]).value>>
          ELSE <<>>) \o DetailsParts(header, record, n + 1)
ImportDetails(header, record) == join(S_Bar, DetailsParts(header, record, 1))

NoStats ==
    [total |-> 0, imported |-> 0, updated |-> 0, failed |-> 0, skipped |-> 0]

\* lines 110-161, one row of the file: a missing uid column raises
\* KeyError, which is counted; a row whose uid is in the table updates it
\* or is skipped; any other row is inserted
ImportRow(db, header, record, update_existing) ==
    LET counted == [db.stats EXCEPT !.total = @ + 1]
        uid == RowGet(header, record, S_uid)
        existing == {n \in 1..Len(db.table) :
                        uid.present /\ db.table[n].uid = uid}
        stored == [uid |-> uid, name |-> ImportName(header, record),
                   details |-> ImportDetails(header, record)]
    IN IF ~\E n \in 1..Len(header) : header[n] = S_uid
       THEN [table |-> db.table,
             stats |-> [counted EXCEPT !.failed = @ + 1]]
       ELSE IF existing # {} /\ update_existing
       THEN [table |-> [n \in 1..Len(db.table) |->
                           IF n \in existing THEN stored ELSE db.table[n]],
             stats |-> [counted EXCEPT !.updated = @ + 1]]
       ELSE IF existing # {}
       THEN [table |-> db.table,
             stats |-> [counted EXCEPT !.skipped = @ + 1]]
       ELSE [table |-> Append(db.table, stored),
             stats |-> [counted EXCEPT !.imported = @ + 1]]

RECURSIVE ImportLoop(_, _, _, _)
ImportLoop(db, header, records, update_existing) ==
    IF records = <<>> THEN db
    ELSE ImportLoop(ImportRow(db, header, records[1], update_existing),
                    header, Tail(records), update_existing)

\* import_csv(csv_path, update_existing) on a table: the table after the
\* commit and the statistics returned
import_csv(table, text, update_existing) ==
    ImportLoop([table |-> table, stats |-> NoStats], DictHeader(text),
               DictRows(text), update_existing)

\* ------------------------------------------------------------------------
\* TraditionalMatcher.screen
\* ------------------------------------------------------------------------
\* one call of _extract_features: it raises or returns the feature mapping
Extract(query_info, entry) ==
    IF ExtractRaises(query_info, entry)
    THEN [raised |-> TRUE, features |-> <<>>]
    ELSE [raised |-> FALSE, features |-> _extract_features(query_info, entry)]

\* the extractor is a pure function: its values on the pools, computed once
FeatureCache ==
    [query \in QueryPool, entry \in EntryPool |->
        Extract(_parse_query(query), entry)]
FeatureCacheAny ==
    [query \in AnyQueries, entry \in AnyEntryPool |->
        Extract(_parse_query(query), entry)]
FeatureCacheLabels ==
    [query \in LabelQueries, entry \in LabelEntryPool |->
        Extract(_parse_query(query), entry)]

ExtractFor(query, entry) ==
    IF <<query, entry>> \in DOMAIN FeatureCache
    THEN FeatureCache[query, entry]
    ELSE IF <<query, entry>> \in DOMAIN FeatureCacheAny
    THEN FeatureCacheAny[query, entry]
    ELSE IF <<query, entry>> \in DOMAIN FeatureCacheLabels
    THEN FeatureCacheLabels[query, entry]
    ELSE Extract(_parse_query(query), entry)

\* the loop over entries: the features and score of every entry reached,
\* up to the first entry whose extraction raises
RECURSIVE ScoreLoopEntries(_, _, _, _, _)
ScoreLoopEntries(weights, query, entries, i, acc) ==
    IF i > Len(entries) THEN [raised |-> FALSE, scored |-> acc]
    ELSE LET x == ExtractFor(query, entries[i])
         IN IF x.raised THEN [raised |-> TRUE, scored |-> acc]
            ELSE ScoreLoopEntries(weights, query, entries, i + 1,
                    Append(acc, [entry |-> entries[i],
                                 features |-> x.features,
                                 score |-> _calculate_score(weights, x.features)]))

\* results after the loop, before the sort
Retained(thr, scored) ==
    LET Kept(x) == Keep(thr, x.score)
        kept == SelectSeq(scored, Kept)
    IN [i \in 1..Len(kept) |->
           MatchResult(kept[i].entry, kept[i].score, kept[i].features)]

\* the return statement: results and step_details
Return(weights, query_info, scoredv, results) ==
    [raised |-> FALSE, query_info |-> query_info, scored |-> scoredv,
     results |-> results,
     step_details |-> StepDetails(weights, query_info, results)]

\* the details are built from the sorted list before it is truncated
AfterLoop_DetailsBeforeTruncation(thr, weights, query_info, loop, max_results) ==
    IF loop.raised
    THEN [raised |-> TRUE, query_info |-> query_info, scored |-> loop.scored,
          results |-> <<>>, step_details |-> <<>>]
    ELSE LET all == sort_by_score(Retained(thr, loop.scored))
         IN [raised |-> FALSE, query_info |-> query_info,
             scored |-> loop.scored,
             results |-> Truncate(all, max_results),
             step_details |-> StepDetails(weights, query_info, all)]

\* what follows the loop: sort, truncate, build the details, return
AfterLoop(thr, weights, query_info, loop, max_results) ==
    IF loop.raised
    THEN [raised |-> TRUE, query_info |-> query_info, scored |-> loop.scored,
          results |-> <<>>, step_details |-> <<>>]
    ELSE Return(weights, query_info, loop.scored,
                Truncate(sort_by_score(Retained(thr, loop.scored)), max_results))

screen(thr, weights, query, entries, max_results) ==
    AfterLoop(thr, weights, _parse_query(query),
              ScoreLoopEntries(weights, query, entries, 1, <<>>), max_results)

\* ------------------------------------------------------------------------
\* State
\* ------------------------------------------------------------------------
VARIABLES
    threshold,        \* self.threshold
    feature_weights,  \* self.feature_weights
    pc,               \* "idle", "returned": a screen call has returned to its
                      \* caller; "extract", "extracted": the extractor run;
                      \* "parse", "parsed": the parser run; "load": the file
                      \* has not been read yet; "scoring": the tasks of a
                      \* call are running; "soundex", "soundexed": the
                      \* Soundex run; "convert": the XML file has not
                      \* been converted yet
    call,             \* the arguments of the call in progress
    query_parsed,     \* the parsed query of the call
    scored,           \* features and score of each entry the loop has scored
    ret,              \* what the call returned
    earlier,          \* an earlier call and what it returned
    csv_file,         \* the text of the CSV file
    loaded,           \* the entries load_entries returned
    completed,        \* the scoring tasks that have completed, in the order
                      \* of their completion
    soundexed,        \* the code _soundex returned
    xml_parties,      \* the DistinctParty elements of the XML file
    sanctions,        \* the rows of the sanctions table, in insertion order
    import_history    \* the statistics of the imports made, one per call

\* the variables of the data pipeline
pipeline_vars == <<xml_parties, sanctions, import_history>>

\* the variables outside the matcher
data_vars == <<csv_file, loaded, completed, soundexed, pipeline_vars>>

vars == <<threshold, feature_weights, pc, call, query_parsed, scored, ret,
          earlier, csv_file, loaded, completed, soundexed, pipeline_vars>>

NoCall == [query |-> <<>>, entries |-> <<>>, max_results |-> 0]
NoQueryInfo == [name |-> <<>>, dob |-> None, nationality |-> None,
                raw_query |-> <<>>]
NoRet == [raised |-> FALSE, results |-> <<>>, step_details |-> <<>>]
NoEarlier == [call |-> NoCall, ret |-> NoRet, made |-> FALSE, other |-> FALSE]

\* no XML file has been converted, the database is empty
NoPipeline ==
    /\ xml_parties = <<>>
    /\ sanctions = <<>>
    /\ import_history = <<>>

\* no file has been written or read
NoData ==
    /\ csv_file = <<>>
    /\ loaded = <<>>
    /\ completed = <<>>
    /\ soundexed = <<>>
    /\ NoPipeline

\* TraditionalMatcher(threshold=0.3), no call made yet
Init ==
    /\ threshold = DefaultThreshold
    /\ feature_weights = FeatureWeights
    /\ pc = "idle"
    /\ call = NoCall
    /\ query_parsed = NoQueryInfo
    /\ scored = <<>>
    /\ ret = NoRet
    /\ earlier = NoEarlier
    /\ NoData

\* the state a call leaves behind: its arguments, the loop's trace and the
\* returned value
Returned(query, entries, max_results, out) ==
    /\ call' = [query |-> query, entries |-> entries, max_results |-> max_results]
    /\ query_parsed' = out.query_info
    /\ scored' = out.scored
    /\ ret' = [raised |-> out.raised, results |-> out.results,
               step_details |-> out.step_details]

\* the call also raises self.threshold to the best score it has seen
Invoke_AdaptiveThreshold(query, entries, max_results) ==
    /\ pc = "idle"
    /\ Returned(query, entries, max_results,
                screen(threshold, feature_weights, query, entries, max_results))
    /\ pc' = "returned"
    /\ threshold' = IF ret'.results # <<>>
                    THEN RMax(threshold, ret'.results[1].score)
                    ELSE threshold
    /\ UNCHANGED <<feature_weights, data_vars>>

\* traditional_matcher.screen(query, entries, max_results) runs to its return
Invoke(query, entries, max_results) ==
    /\ pc = "idle"
    /\ Returned(query, entries, max_results,
                screen(threshold, feature_weights, query, entries, max_results))
    /\ pc' = "returned"
    /\ UNCHANGED <<threshold, feature_weights, data_vars>>

Screen(query, entries, max_results) ==
    /\ Invoke(query, entries, max_results)
    /\ UNCHANGED earlier

\* the caller has used the returned value and is ready for the next request
Respond ==
    /\ pc = "returned"
    /\ pc' = "idle"
    /\ call' = NoCall
    /\ query_parsed' = NoQueryInfo
    /\ scored' = <<>>
    /\ ret' = NoRet
    /\ completed' = <<>>
    /\ UNCHANGED <<threshold, feature_weights, earlier, csv_file, loaded,
                   soundexed, pipeline_vars>>

Next ==
    \/ \E query \in QueryPool, entries \in EntryLists,
          max_results \in MaxResultsRange :
          Screen(query, entries, max_results)
    \/ Respond

Spec == Init /\ [][Next]_vars

\* Repeated calls: as Spec, and the observer keeps one earlier call with
\* its return value (any one of the calls made so far) and whether a call
\* with other arguments has been made since
ScreenNoted(query, entries, max_results) ==
    /\ Invoke(query, entries, max_results)
    /\ \/ earlier' = [call |-> call', ret |-> ret', made |-> TRUE,
                       other |-> FALSE]
       \/ /\ earlier.made
          /\ earlier' = [earlier EXCEPT !.other = @ \/ earlier.call # call']

NextIdem ==
    \/ \E query \in IdemQueries, entries \in IdemLists,
          max_results \in IdemMaxResults :
          ScreenNoted(query, entries, max_results)
    \/ Respond

SpecIdem == Init /\ [][NextIdem]_vars

\* Screening of collections that may hold a record without a name
NextEntries ==
    \/ \E query \in AnyQueries, entries \in AnyLists :
          Screen(query, entries, MaxResults)
    \/ Respond

SpecEntries == Init /\ [][NextEntries]_vars

\* Matchers constructed with different thresholds
InitThreshold ==
    /\ threshold \in Thresholds
    /\ feature_weights = FeatureWeights
    /\ pc = "idle"
    /\ call = NoCall
    /\ query_parsed = NoQueryInfo
    /\ scored = <<>>
    /\ ret = NoRet
    /\ earlier = NoEarlier
    /\ NoData

NextLabels ==
    \/ \E query \in LabelQueries, entries \in LabelLists :
          Screen(query, entries, MaxEntries)
    \/ Respond

SpecLabels == InitThreshold /\ [][NextLabels]_vars

\* step_details['feature_weights'] is self.feature_weights itself, not a
\* copy: an assignment ret['step_details']['feature_weights'][key] = value
\* by the caller writes to the matcher's table
CallerWritesWeights(key, value) ==
    /\ pc = "returned"
    /\ ~ret.raised
    /\ feature_weights' = [feature_weights EXCEPT ![key] = value]
    /\ ret' = [ret EXCEPT !.step_details.feature_weights = feature_weights']
    /\ UNCHANGED <<threshold, pc, call, query_parsed, scored, earlier,
                   data_vars>>

NextCaller ==
    \/ \E query \in CallerQueries, entries \in CallerLists :
          Screen(query, entries, MaxResults)
    \/ \E key \in CallerKeys, value \in CallerValues :
          CallerWritesWeights(key, value)
    \/ Respond

SpecCaller == Init /\ [][NextCaller]_vars

\* Calls whose queries and entries differ in letter case and surrounding
\* blanks only, the observer keeping one earlier call as in SpecIdem
NextVariants ==
    \/ \E query \in VariantQueries, entries \in VariantLists :
          ScreenNoted(query, entries, MaxResults)
    \/ Respond

SpecVariants == Init /\ [][NextVariants]_vars

\* The extractor and scorer as pure functions: the inputs are drawn by the
\* initial state and the action applies _parse_query, _extract_features and
\* _calculate_score to them
InitFeat ==
    /\ threshold = DefaultThreshold
    /\ feature_weights = FeatureWeights
    /\ pc = "extract"
    /\ call \in {[query |-> q, entries |-> <<e>>, max_results |-> 0] :
                    q \in FeatQueries, e \in FeatEntries}
    /\ query_parsed = NoQueryInfo
    /\ scored = <<>>
    /\ ret = NoRet
    /\ earlier = NoEarlier
    /\ NoData

ExtractFeatures ==
    /\ pc = "extract"
    /\ query_parsed' = _parse_query(call.query)
    /\ scored' = ScoreLoopEntries(feature_weights, call.query, call.entries,
                                  1, <<>>).scored
    /\ pc' = "extracted"
    /\ UNCHANGED <<threshold, feature_weights, call, ret, earlier, data_vars>>

NextFeat == ExtractFeatures

SpecFeat == InitFeat /\ [][NextFeat]_vars

\* The extractor on queries and entries with dates of birth
InitDob ==
    /\ threshold = DefaultThreshold
    /\ feature_weights = FeatureWeights
    /\ pc = "extract"
    /\ call \in {[query |-> q, entries |-> <<e>>, max_results |-> 0] :
                    q \in DobQueries, e \in DobEntries}
    /\ query_parsed = NoQueryInfo
    /\ scored = <<>>
    /\ ret = NoRet
    /\ earlier = NoEarlier
    /\ NoData

NextDob == ExtractFeatures

SpecDob == InitDob /\ [][NextDob]_vars

\* The parser as a pure function: the query is drawn by the initial state
\* and the action applies _parse_query to it
InitParse ==
    /\ threshold = DefaultThreshold
    /\ feature_weights = FeatureWeights
    /\ pc = "parse"
    /\ call \in {[query |-> q, entries |-> <<>>, max_results |-> 0] :
                    q \in ParseQueries}
    /\ query_parsed = NoQueryInfo
    /\ scored = <<>>
    /\ ret = NoRet
    /\ earlier = NoEarlier
    /\ NoData

ParseQuery ==
    /\ pc = "parse"
    /\ query_parsed' = _parse_query(call.query)
    /\ pc' = "parsed"
    /\ UNCHANGED <<threshold, feature_weights, call, scored, ret, earlier,
                   data_vars>>

NextParse == ParseQuery

SpecParse == InitParse /\ [][NextParse]_vars

\* The loader as a function of the file: the file is drawn by the initial
\* state and the action runs SDNDataLoader(path).load_entries()
InitLoad ==
    /\ threshold = DefaultThreshold
    /\ feature_weights = FeatureWeights
    /\ pc = "load"
    /\ call = NoCall
    /\ query_parsed = NoQueryInfo
    /\ scored = <<>>
    /\ ret = NoRet
    /\ earlier = NoEarlier
    /\ csv_file \in LoadFiles
    /\ loaded = <<>>
    /\ completed = <<>>
    /\ soundexed = <<>>
    /\ NoPipeline

LoadEntries ==
    /\ pc = "load"
    /\ loaded' = load_entries(csv_file)
    /\ pc' = "idle"
    /\ UNCHANGED <<threshold, feature_weights, call, query_parsed, scored,
                   ret, earlier, csv_file, completed, soundexed,
                   pipeline_vars>>

NextLoad == LoadEntries

SpecLoad == InitLoad /\ [][NextLoad]_vars

\* Fan-out and fan-in of the scoring loop: one task for each entry, the
\* tasks completing in any order

\* the tasks share one features mapping: a task that completes after
\* another one scores the mapping that task left behind
ScoreTask_SharedFeatures(weights, query, entries, index) ==
    LET x == ExtractFor(query, entries[index])
        shared == IF completed = <<>> THEN x.features
                  ELSE completed[Len(completed)].features
    IN [index |-> index, entry |-> entries[index], features |-> shared,
        score |-> _calculate_score(weights, shared)]

\* the body of the loop for the entry at position index (lines 66-70)
ScoreTask(weights, query, entries, index) ==
    LET x == ExtractFor(query, entries[index])
    IN [index |-> index, entry |-> entries[index], features |-> x.features,
        score |-> _calculate_score(weights, x.features)]

\* the completed tasks sorted on (score descending, original index)
SortTasks(tasks) ==
    LET Before(j, k) ==
            \/ RGt(tasks[j].score, tasks[k].score)
            \/ tasks[j].score = tasks[k].score /\ tasks[j].index < tasks[k].index
        Place(j) == 1 + Cardinality({k \in 1..Len(tasks) : Before(k, j)})
    IN [n \in 1..Len(tasks) |->
           tasks[CHOOSE j \in 1..Len(tasks) : Place(j) = n]]

\* the fan-in: threshold filter, sort, truncation and the returned value
Aggregate(thr, weights, query, tasks, max_results) ==
    Return(weights, _parse_query(query), <<>>,
           Truncate(Retained(thr, SortTasks(tasks)), max_results))

\* A call whose per-entry computations run as tasks: the call starts, the
\* tasks complete one at a time in any order, and the call returns when all
\* have completed
StartTasks(query, entries, max_results) ==
    /\ pc = "idle"
    /\ call' = [query |-> query, entries |-> entries,
                max_results |-> max_results]
    /\ query_parsed' = _parse_query(query)
    /\ completed' = <<>>
    /\ pc' = "scoring"
    /\ UNCHANGED <<threshold, feature_weights, scored, ret, earlier,
                   csv_file, loaded, soundexed, pipeline_vars>>

CompleteTask(index) ==
    /\ pc = "scoring"
    /\ index \in 1..Len(call.entries)
    /\ \A n \in 1..Len(completed) : completed[n].index # index
    /\ completed' = Append(completed, ScoreTask(feature_weights, call.query,
                                                 call.entries, index))
    /\ UNCHANGED <<threshold, feature_weights, pc, call, query_parsed, scored,
                   ret, earlier, csv_file, loaded, soundexed, pipeline_vars>>

AggregateTasks ==
    /\ pc = "scoring"
    /\ Len(completed) = Len(call.entries)
    /\ LET out == Aggregate(threshold, feature_weights, call.query, completed,
                            call.max_results)
       IN ret' = [raised |-> out.raised, results |-> out.results,
                  step_details |-> out.step_details]
    /\ pc' = "returned"
    /\ UNCHANGED <<threshold, feature_weights, call, query_parsed, scored,
                   earlier, data_vars>>

NextTasks ==
    \/ \E query \in TaskQueries, entries \in TaskLists,
          max_results \in TaskMaxResults :
          StartTasks(query, entries, max_results)
    \/ \E index \in 1..MaxEntries : CompleteTask(index)
    \/ AggregateTasks
    \/ Respond

SpecTasks == Init /\ [][NextTasks]_vars

\* _soundex as a pure function: the string is drawn by the initial state
\* and the action applies _soundex to it
InitSoundex ==
    /\ threshold = DefaultThreshold
    /\ feature_weights = FeatureWeights
    /\ pc = "soundex"
    /\ call \in {[query |-> s, entries |-> <<>>, max_results |-> 0] :
                    s \in SoundexStrings}
    /\ query_parsed = NoQueryInfo
    /\ scored = <<>>
    /\ ret = NoRet
    /\ earlier = NoEarlier
    /\ NoData

Soundex ==
    /\ pc = "soundex"
    /\ soundexed' = _soundex(call.query)
    /\ pc' = "soundexed"
    /\ UNCHANGED <<threshold, feature_weights, call, query_parsed, scored,
                   ret, earlier, csv_file, loaded, completed, pipeline_vars>>

NextSoundex == Soundex

SpecSoundex == InitSoundex /\ [][NextSoundex]_vars

\* Screening of one entry at a time, with and without context hints in the
\* query
NextContext ==
    \/ \E query \in ContextQueries, entries \in ContextLists :
          Screen(query, entries, MaxResults)
    \/ Respond

SpecContext == Init /\ [][NextContext]_vars

\* The service: the file is loaded once, then queries are screened against
\* the loaded entries
InitLoaded ==
    /\ threshold = DefaultThreshold
    /\ feature_weights = FeatureWeights
    /\ pc = "load"
    /\ call = NoCall
    /\ query_parsed = NoQueryInfo
    /\ scored = <<>>
    /\ ret = NoRet
    /\ earlier = NoEarlier
    /\ csv_file \in ScreenedFiles
    /\ loaded = <<>>
    /\ completed = <<>>
    /\ soundexed = <<>>
    /\ NoPipeline

NextLoaded ==
    \/ LoadEntries
    \/ \E query \in ScreenedQueries : Screen(query, loaded, MaxResults)
    \/ Respond

SpecLoaded == InitLoaded /\ [][NextLoaded]_vars

\* The data pipeline: the XML file is converted to the CSV file, which the
\* import step reads into the sanctions table (again when the import is
\* repeated) and which the service loads
InitPipeline ==
    /\ threshold = DefaultThreshold
    /\ feature_weights = FeatureWeights
    /\ pc = "convert"
    /\ call = NoCall
    /\ query_parsed = NoQueryInfo
    /\ scored = <<>>
    /\ ret = NoRet
    /\ earlier = NoEarlier
    /\ csv_file = <<>>
    /\ loaded = <<>>
    /\ completed = <<>>
    /\ soundexed = <<>>
    /\ xml_parties \in PartyLists
    /\ sanctions = <<>>
    /\ import_history = <<>>

Convert ==
    /\ pc = "convert"
    /\ csv_file' = convert_to_csv(xml_parties)
    /\ pc' = "load"
    /\ UNCHANGED <<threshold, feature_weights, call, query_parsed, scored,
                   ret, earlier, loaded, completed, soundexed, pipeline_vars>>

ImportCsv ==
    /\ pc \in {"load", "idle"}
    /\ Len(import_history) < MaxImports
    /\ LET done == import_csv(sanctions, csv_file, TRUE)
       IN /\ sanctions' = done.table
          /\ import_history' = Append(import_history, done.stats)
    /\ UNCHANGED <<threshold, feature_weights, pc, call, query_parsed,
                   scored, ret, earlier, csv_file, loaded, completed,
                   soundexed, xml_parties>>

NextPipeline ==
    \/ Convert
    \/ ImportCsv
    \/ LoadEntries

SpecPipeline == InitPipeline /\ [][NextPipeline]_vars

\* ------------------------------------------------------------------------
\* Properties
\* ------------------------------------------------------------------------
Returned_OK == pc = "returned" /\ ~ret.raised
Results == ret.results
\* the positions of the input whose score reaches the threshold
KeptIdx == {j \in 1..Len(scored) : RGe(scored[j].score, threshold)}
NonZeroFeature(j) ==
    \E k \in DOMAIN scored[j].features : scored[j].features[k] # Zero
\* position j sorts before position k under the key (-score, index)
SortsBefore(j, k) ==
    \/ RGt(scored[j].score, scored[k].score)
    \/ scored[j].score = scored[k].score /\ j < k
Rank(j) == Cardinality({k \in KeptIdx : SortsBefore(k, j)})
QueryName == strip(lower(_parse_query(call.query).name))
NameOnlyQuery == _parse_query(call.query).name = call.query
IsPlain(entry) ==
    /\ entry.name.present /\ entry.aliases = <<>>
    /\ ~entry.dob.present /\ ~entry.nationality.present

\* C1: every returned result has score >= threshold, and an entry whose
\* score is below the threshold is in no result, whatever its features
C1_ResultsReachThreshold ==
    pc = "returned" =>
        /\ \A i \in 1..Len(Results) : RGe(Results[i].score, threshold)
        /\ \A j \in 1..Len(scored) :
              RLt(scored[j].score, threshold) =>
                  \A i \in 1..Len(Results) : Results[i].entry # scored[j].entry

C1_Witness ==
    /\ Returned_OK
    /\ Results # <<>>
    /\ \E j \in 1..Len(scored) :
          /\ RLt(scored[j].score, threshold)
          /\ NonZeroFeature(j)
          /\ RGt(scored[j].score, <<1, 4>>)

\* C2: the number of results never exceeds max_results, for every integer
\* max_results
C2_CountAtMostMaxResults ==
    pc = "returned" => Len(Results) <= call.max_results

\* C3: the results are sorted by score in descending order
C3_SortedDescending ==
    pc = "returned" =>
        \A i \in 1..(Len(Results) - 1) :
            RGe(Results[i].score, Results[i + 1].score)

C3_Witness ==
    /\ Returned_OK
    /\ Len(Results) >= 2
    /\ RGt(Results[1].score, Results[2].score)
    /\ \E j, k \in KeptIdx : j < k /\ RLt(scored[j].score, scored[k].score)

\* C4: the results are in the order of the key (-score, original index):
\* result i is the retained entry with exactly i - 1 retained entries
\* sorting before it, so equal scores keep their input order
C4_TiesKeepInputOrder ==
    pc = "returned" =>
        \A i \in 1..Len(Results) :
            \E j \in KeptIdx :
                /\ Rank(j) = i - 1
                /\ Results[i].entry = scored[j].entry
                /\ Results[i].score = scored[j].score

C4_Witness ==
    /\ Returned_OK
    /\ \E i \in 1..(Len(Results) - 1) :
          /\ Results[i].score = Results[i + 1].score
          /\ Results[i].entry # Results[i + 1].entry
    /\ 1 \in KeptIdx
    /\ RLt(scored[1].score, Results[1].score)

\* C5: for max_results >= 0 there are exactly min(max_results, retained)
\* results, and no retained entry that is left out scores strictly higher
\* than a returned one
C5_TruncationKeepsBest ==
    (Returned_OK /\ call.max_results >= 0) =>
        /\ Len(Results) = Min({call.max_results, Cardinality(KeptIdx)})
        /\ \A j \in KeptIdx :
              \/ \E i \in 1..Len(Results) :
                    /\ Results[i].entry = scored[j].entry
                    /\ Results[i].score = scored[j].score
              \/ \A i \in 1..Len(Results) :
                    RLe(scored[j].score, Results[i].score)

C5_Witness ==
    /\ Returned_OK
    /\ call.max_results >= 1
    /\ Cardinality(KeptIdx) > call.max_results
    /\ Len(Results) = call.max_results
    /\ \E j \in KeptIdx :
          RLt(scored[j].score, Results[Len(Results)].score)

C7_FeaturesInUnitInterval ==
    \A j \in 1..Len(scored) :
        /\ DOMAIN scored[j].features = DOMAIN FeatureWeights
        /\ \A k \in DOMAIN scored[j].features :
              /\ RLe(Zero, scored[j].features[k])
              /\ RLe(scored[j].features[k], One)

C7_Witness ==
    /\ pc = "extracted"
    /\ Len(scored) = 1
    /\ Len(strip(lower(scored[1].entry.name.value))) > Len(QueryName)
    /\ scored[1].features.common_prefix = One
    /\ scored[1].features.common_suffix = One
    /\ RGt(scored[1].features.jaro_winkler_similarity, <<9, 10>>)
    /\ RLt(scored[1].features.jaro_winkler_similarity, One)

\* C8 as stated: a name-only query n against {name: n} yields exact_match =
\* case_insensitive_match = 1.0, score = 1.0 and confidence HIGH
C8_ExactNameScoresOne ==
    pc = "returned" =>
        \A j \in 1..Len(scored) :
            (NameOnlyQuery /\ IsPlain(scored[j].entry)
                /\ scored[j].entry.name.value = call.query
                /\ Len(QueryName) >= 2) =>
                /\ scored[j].features.exact_match = One
                /\ scored[j].features.case_insensitive_match = One
                /\ scored[j].score = One
                /\ \A i \in 1..Len(Results) :
                      Results[i].entry = scored[j].entry =>
                          Results[i].confidence = "HIGH"

\* C8 amended: a name-only query n (at least two characters) against
\* {name: n} yields exact_match = case_insensitive_match = 1.0, score =
\* 8.1/11.6 and confidence MEDIUM-HIGH
C8_ExactNameScore ==
    pc = "returned" =>
        \A j \in 1..Len(scored) :
            (NameOnlyQuery /\ IsPlain(scored[j].entry)
                /\ scored[j].entry.name.value = call.query
                /\ Len(QueryName) >= 2) =>
                /\ scored[j].features.exact_match = One
                /\ scored[j].features.case_insensitive_match = One
                /\ scored[j].score = R(81, 116)
                /\ j \in KeptIdx
                /\ \A i \in 1..Len(Results) :
                      Results[i].entry = scored[j].entry =>
                          Results[i].confidence = "MEDIUM-HIGH"

C8_Witness ==
    /\ Returned_OK
    /\ call.query = Q_JohnSmith
    /\ Len(Results) = 1
    /\ Results[1].entry = E_JohnSmith
    /\ Results[1].confidence = "MEDIUM-HIGH"

JonSmythCase(j) ==
    call.query = Q_JonSmyth /\ scored[j].entry = E_JohnSmith

\* C9 as stated: "Jon Smyth" against {name: "John Smith"} gives exact_match
\* = 0.0, levenshtein_similarity > 0.5, soundex_match = 1.0, a score in
\* (0.3, 0.8) and confidence MEDIUM or MEDIUM-HIGH
C9_JonSmythMedium ==
    pc = "returned" =>
        \A j \in 1..Len(scored) :
            JonSmythCase(j) =>
                /\ scored[j].features.exact_match = Zero
                /\ RGt(scored[j].features.levenshtein_similarity, <<1, 2>>)
                /\ scored[j].features.soundex_match = One
                /\ RGt(scored[j].score, <<3, 10>>)
                /\ RLt(scored[j].score, <<4, 5>>)
                /\ \A i \in 1..Len(Results) :
                      Results[i].entry = scored[j].entry =>
                          Results[i].confidence \in {"MEDIUM", "MEDIUM-HIGH"}

\* C9 amended: the same features and score range, the score is below 0.4
\* and the confidence is LOW-MEDIUM
C9_JonSmythLowMedium ==
    pc = "returned" =>
        \A j \in 1..Len(scored) :
            JonSmythCase(j) =>
                /\ scored[j].features.exact_match = Zero
                /\ RGt(scored[j].features.levenshtein_similarity, <<1, 2>>)
                /\ scored[j].features.soundex_match = One
                /\ RGt(scored[j].score, <<3, 10>>)
                /\ RLt(scored[j].score, <<2, 5>>)
                /\ \A i \in 1..Len(Results) :
                      Results[i].entry = scored[j].entry =>
                          Results[i].confidence = "LOW-MEDIUM"

C9_Witness ==
    /\ Returned_OK
    /\ call.query = Q_JonSmyth
    /\ Len(Results) = 1
    /\ Results[1].entry = E_JohnSmith
    /\ Results[1].confidence = "LOW-MEDIUM"

\* C10: a query whose name segment is empty after trimming returns an empty
\* result list, without an exception, for entries with non-empty names
C10_EmptyQueryMatchesNothing ==
    (pc = "returned"
        /\ strip(_parse_query(call.query).name) = <<>>
        /\ \A i \in 1..Len(call.entries) :
              call.entries[i].name.present
                  /\ call.entries[i].name.value # <<>>) =>
        /\ ~ret.raised
        /\ Results = <<>>

HasName(entry) == entry.name.present
WellFormed == SelectSeq(call.entries, HasName)

\* C11: an entry without a name is skipped: the call does not raise and
\* returns the results of screening the other entries
C11_MalformedEntrySkipped ==
    pc = "returned" =>
        /\ ~ret.raised
        /\ Results = screen(threshold, feature_weights, call.query,
                            WellFormed, call.max_results).results

\* the comma-delimited segments of the raw query, trimmed: segment 0 is the
\* name, segments 1..SegmentCount follow it
CommaPositions == {i \in 1..Len(call.query) : call.query[i] = 44}
SegmentCount == Cardinality(CommaPositions)
\* the position of the k-th comma; 0 and Len + 1 stand for the two ends
CommaAt(k) ==
    IF k = 0 THEN 0
    ELSE IF k > SegmentCount THEN Len(call.query) + 1
    ELSE CHOOSE p \in CommaPositions :
            Cardinality({c \in CommaPositions : c < p}) = k - 1
Segment(k) == strip(SubSeq(call.query, CommaAt(k) + 1, CommaAt(k + 1) - 1))
IsDobSegment(seg) == DateLike(seg) \/ (HasFourDigits(seg) /\ Len(seg) <= 10)
DobSegments == {k \in 1..SegmentCount : IsDobSegment(Segment(k))}
OtherSegments == {k \in 1..SegmentCount : ~IsDobSegment(Segment(k))}

\* C12 as stated: with more than one date-like segment the parsed dob is the
\* first of them in query order
C12_FirstDateWins ==
    (pc = "parsed" /\ Cardinality(DobSegments) >= 2) =>
        query_parsed.dob = Some(Segment(Min(DobSegments)))

\* C12 amended: with more than one date-like segment the parsed dob is the
\* last of them in query order; every earlier one is replaced
C12_LastDateWins ==
    (pc = "parsed" /\ Cardinality(DobSegments) >= 2) =>
        query_parsed.dob = Some(Segment(Max(DobSegments)))

C12_Witness ==
    /\ pc = "parsed"
    /\ Cardinality(DobSegments) >= 2
    /\ Segment(Min(DobSegments)) # Segment(Max(DobSegments))
    /\ query_parsed.dob = Some(Segment(Max(DobSegments)))

\* C13: name is the first segment trimmed, raw_query the untouched input,
\* dob one of the date-like later segments, nationality the last later
\* segment that is not date-like, and each is absent when there is no
\* segment of its kind
C13_SegmentsClassified ==
    pc = "parsed" =>
        /\ query_parsed.name = Segment(0)
        /\ query_parsed.raw_query = call.query
        /\ IF DobSegments = {} THEN query_parsed.dob = None
           ELSE \E k \in DobSegments : query_parsed.dob = Some(Segment(k))
        /\ IF OtherSegments = {} THEN query_parsed.nationality = None
           ELSE query_parsed.nationality = Some(Segment(Max(OtherSegments)))

C13_Witness ==
    /\ pc = "parsed"
    /\ query_parsed.name # SubSeq(call.query, 1, CommaAt(1) - 1)
    /\ Cardinality(OtherSegments) = 2
    /\ Segment(1) # Segment(2)
    /\ query_parsed.nationality = Some(Segment(2))
    /\ Len(Segment(1)) > 10 /\ HasFourDigits(Segment(1))

Labels == <<"LOW", "LOW-MEDIUM", "MEDIUM", "MEDIUM-HIGH", "HIGH">>
LabelRank(c) == CHOOSE n \in 1..Len(Labels) : Labels[n] = c

\* C14: the confidence of every result is the bucket of its score with
\* inclusive lower bounds 0.8, 0.6, 0.4, 0.2, and a result with a higher
\* score never carries a lower label
C14_LabelIsBucketOfScore ==
    pc = "returned" =>
        \A i \in 1..Len(Results) :
            LET s == Results[i].score
                c == Results[i].confidence
            IN /\ c \in SeqToSet(Labels)
               /\ (c = "HIGH") <=> RGe(s, <<4, 5>>)
               /\ (c = "MEDIUM-HIGH") <=> (RGe(s, <<3, 5>>) /\ RLt(s, <<4, 5>>))
               /\ (c = "MEDIUM") <=> (RGe(s, <<2, 5>>) /\ RLt(s, <<3, 5>>))
               /\ (c = "LOW-MEDIUM") <=> (RGe(s, <<1, 5>>) /\ RLt(s, <<2, 5>>))
               /\ (c = "LOW") <=> RLt(s, <<1, 5>>)
               /\ \A j \in 1..Len(Results) :
                     RGt(s, Results[j].score) =>
                         LabelRank(c) >= LabelRank(Results[j].confidence)

C14_Witness ==
    /\ Returned_OK
    /\ \E i, j \in 1..Len(Results) :
          /\ Results[i].score = <<1, 5>>
          /\ Results[i].confidence = "LOW-MEDIUM"
          /\ Results[j].confidence = "LOW"
          /\ RGt(Results[j].score, Zero)

\* C15: the extractor returns exactly the 21 fixed keys, which are the keys
\* of the weight table, so no key takes the fallback weight and the
\* denominator of the score is 11.6 for every pair
C15_ClosedKeySet ==
    \A j \in 1..Len(scored) :
        LET features == scored[j].features
        IN /\ DOMAIN features = SeqToSet(FeatureOrder)
           /\ Cardinality(DOMAIN features) = 21
           /\ DOMAIN features = DOMAIN feature_weights
           /\ ScoreLoop(feature_weights, features, DOMAIN features,
                        Zero, Zero)[2] = R(116, 10)
           /\ RMul(scored[j].score, R(116, 10))
                  = ScoreLoop(feature_weights, features, DOMAIN features,
                              Zero, Zero)[1]

C15_Witness ==
    /\ pc = "extracted"
    /\ Len(scored) = 1
    /\ scored[1].features.exact_match = Zero
    /\ scored[1].features.dob_exact_match = One
    /\ scored[1].features.nationality_match = One
    /\ scored[1].features.country_in_remarks = One

EntryName(j) == strip(lower(scored[j].entry.name.value))

\* C19: equal names, the empty one included, have levenshtein similarity
\* 1.0 and jaro-winkler similarity 1.0, and both are 0.0 when exactly one
\* of the two names is empty
C19_IdentityAndEmpty ==
    \A j \in 1..Len(scored) :
        LET features == scored[j].features
        IN /\ QueryName = EntryName(j) =>
                 /\ features.levenshtein_similarity = One
                 /\ features.jaro_winkler_similarity = One
           /\ (QueryName = <<>>) # (EntryName(j) = <<>>) =>
                 /\ features.levenshtein_similarity = Zero
                 /\ features.jaro_winkler_similarity = Zero

C19_Witness ==
    /\ pc = "extracted"
    /\ Len(scored) = 1
    /\ QueryName = <<>>
    /\ EntryName(1) = <<>>
    /\ scored[1].features.levenshtein_similarity = One
    /\ scored[1].features.jaro_winkler_similarity = One

\* C16: screen never raises, for every query and every collection of
\* entries whose fields are strings or absent
C16_ScreenNeverRaises ==
    pc = "returned" => ~ret.raised

\* C17: after any sequence of calls, and whatever the caller does with what
\* they returned, the threshold and the weight table are those fixed at
\* construction
C17_ConfigurationFixed ==
    /\ threshold = DefaultThreshold
    /\ feature_weights = FeatureWeights

Trailing4(digits) == [i \in 1..4 |-> digits[Len(digits) - 4 + i]]
Leading4(digits) == [i \in 1..4 |-> digits[i]]

\* C18: dob_partial_match is 0.0, 0.5 or 0.7: 0.0 when a date is absent or
\* has fewer than 4 digits; otherwise 0.7 when the trailing 4 digits are
\* equal, else 0.5 when the leading 4 digits of one occur in the other, else
\* 0.0; "Maria Lopez, 1980" against dob "15/03/1980" gives 0.7 and
\* exact_match 1.0
C18_DobPartialMatch ==
    \A j \in 1..Len(scored) :
        LET qd == DigitsOnly(query_parsed.dob.value)
            ed == DigitsOnly(scored[j].entry.dob.value)
            v == scored[j].features.dob_partial_match
        IN /\ v \in {Zero, <<1, 2>>, <<7, 10>>}
           /\ IF \/ ~query_parsed.dob.present \/ ~scored[j].entry.dob.present
                 \/ Len(qd) < 4 \/ Len(ed) < 4
              THEN v = Zero
              ELSE IF Trailing4(qd) = Trailing4(ed) THEN v = <<7, 10>>
              ELSE IF Contains(ed, Leading4(qd)) \/ Contains(qd, Leading4(ed))
                   THEN v = <<1, 2>>
              ELSE v = Zero
           /\ (call.query = Q_Maria /\ scored[j].entry = E_Maria) =>
                 /\ v = <<7, 10>>
                 /\ scored[j].features.exact_match = One

C18_Witness ==
    /\ pc = "extracted"
    /\ Len(scored) = 1
    /\ call.query = Q_Maria
    /\ scored[1].entry = E_Maria
    /\ query_parsed.dob = Some(S_1980)
    /\ scored[1].features.dob_partial_match = <<7, 10>>
    /\ scored[1].features.exact_match = One

\* a string, a query and an entry up to letter case and surrounding blanks
Folded(s) == strip(lower(s))
FoldedOpt(o) == [present |-> o.present, value |-> Folded(o.value)]
FoldedQuery(query) ==
    LET parsed == _parse_query(query)
    IN [name |-> Folded(parsed.name), dob |-> parsed.dob,
        nationality |-> FoldedOpt(parsed.nationality)]
FoldedEntry(entry) ==
    [name |-> FoldedOpt(entry.name),
     aliases |-> [i \in 1..Len(entry.aliases) |-> Folded(entry.aliases[i])],
     dob |-> entry.dob,
     nationality |-> FoldedOpt(entry.nationality),
     remarks |-> FoldedOpt(entry.remarks)]
SameUpToCaseAndBlanks(c1, c2) ==
    /\ FoldedQuery(c1.query) = FoldedQuery(c2.query)
    /\ Len(c1.entries) = Len(c2.entries)
    /\ \A i \in 1..Len(c1.entries) :
          FoldedEntry(c1.entries[i]) = FoldedEntry(c2.entries[i])
    /\ c1.max_results = c2.max_results

\* C20: two calls that differ only in letter case and surrounding blanks
\* of the query name and nationality and of the entries' name, aliases,
\* nationality and remarks return the same feature values and scores, and
\* every returned entry is the caller's entry, unmodified
C20_CaseAndBlanksIgnored ==
    pc = "returned" =>
        /\ \A i \in 1..Len(Results) :
              \E k \in 1..Len(call.entries) : Results[i].entry = call.entries[k]
        /\ (earlier.made /\ SameUpToCaseAndBlanks(earlier.call, call)) =>
              /\ Len(earlier.ret.results) = Len(Results)
              /\ \A i \in 1..Len(Results) :
                    /\ earlier.ret.results[i].features = Results[i].features
                    /\ earlier.ret.results[i].score = Results[i].score


\* ------------------------------------------------------------------------
\* The loader
\* ------------------------------------------------------------------------
Loaded == pc # "load" /\ csv_file # <<>>
FileRows == reader(csv_file)
\* the rows after the header with at least 3 columns, in file order
CompleteRows ==
    LET AtLeast3(row) == Len(row) >= 3
    IN SelectSeq(Tail(FileRows), AtLeast3)

\* C21: load_entries returns, in file order, one entry for every row after
\* the header that has at least 3 columns, however many rows the file has
C21_LoadsEveryRow ==
    Loaded =>
        /\ Len(loaded) = Len(CompleteRows)
        /\ \A j \in 1..Len(loaded) : loaded[j].id = CompleteRows[j][1]


\* ------------------------------------------------------------------------
\* Concurrent scoring
\* ------------------------------------------------------------------------
AllTasksDone ==
    /\ pc = "returned"
    /\ call.entries # <<>>
    /\ Len(completed) = Len(call.entries)
SequentialReturn ==
    screen(threshold, feature_weights, call.query, call.entries,
           call.max_results)

\* C22: each task's features and score are those the sequential loop
\* computes for that entry, whatever has completed before it, and the
\* aggregated output equals the sequential screen output for every
\* completion order
C22_TasksEqualSequential ==
    LET sequential == SequentialReturn
    IN /\ \A n \in 1..Len(completed) :
             LET t == completed[n]
                 s == sequential.scored[t.index]
             IN t.features = s.features /\ t.score = s.score
       /\ AllTasksDone =>
             /\ ret.results = sequential.results
             /\ ret.step_details = sequential.step_details
             /\ ~sequential.raised

\* a call of three tasks that completed in an order other than the input
\* order, two of the results being different entries of equal score
C22_Witness ==
    /\ AllTasksDone
    /\ Len(completed) = MaxEntries
    /\ \E n \in 1..(Len(completed) - 1) :
          completed[n].index > completed[n + 1].index
    /\ \E j, k \in 1..Len(ret.results) :
          /\ ret.results[j].score = ret.results[k].score
          /\ ret.results[j].entry # ret.results[k].entry


\* ------------------------------------------------------------------------
\* Soundex
\* ------------------------------------------------------------------------
SoundexInput == upper(call.query)
\* the code after the first k characters of the input, before the padding
SoundexAfter(k) ==
    SoundexLoop(SubSeq(SoundexInput, 2, k), <<SoundexInput[1]>>)
\* the character at position k appends a digit to the code
Contributes(k) == Len(SoundexAfter(k)) > Len(SoundexAfter(k - 1))
SameCodeAsPrevious(k) ==
    /\ SoundexCode(SoundexInput[k]) # <<>>
    /\ SoundexCode(SoundexInput[k]) = SoundexCode(SoundexInput[k - 1])
\* vowels, H, W, Y
Uncoded(c) == c \in {65, 69, 73, 79, 85, 72, 87, 89}

\* C23: for every non-empty s, Soundex(s) has 4 characters, the upper-cased
\* first character of s and three digits in 0..6; a letter after the first
\* whose table code equals the table code of the letter immediately before
\* it contributes no digit, and vowels, H, W and Y contribute no digit
C23_SoundexShape ==
    (pc = "soundexed" /\ call.query # <<>>) =>
        /\ Len(soundexed) = 4
        /\ soundexed[1] = UpperChar(call.query[1])
        /\ \A n \in 2..4 : soundexed[n] \in 48..54
        /\ \A k \in 2..Len(call.query) :
              (SameCodeAsPrevious(k) \/ Uncoded(SoundexInput[k]))
                  => ~Contributes(k)


\* ------------------------------------------------------------------------
\* Diagnostics
\* ------------------------------------------------------------------------
PositiveKeys(features) == {k \in DOMAIN features : RGt(features[k], Zero)}

\* C24: matches_found is the length of the returned list, results_detail
\* has one record per result in the same order with its name and
\* confidence, total_features is 21, and feature_count is the length of
\* matched_features, which lists exactly the keys whose value is > 0
C24_DiagnosticsAgree ==
    Returned_OK =>
        LET details == ret.step_details
        IN /\ details.matches_found = Len(Results)
           /\ Len(details.results_detail) = Len(Results)
           /\ details.total_features = 21
           /\ \A n \in 1..Len(Results) :
                 /\ details.results_detail[n].name = Results[n].entry.name
                 /\ details.results_detail[n].confidence = Results[n].confidence
                 /\ details.results_detail[n].feature_count
                        = Results[n].feature_count
                 /\ Results[n].feature_count = Len(Results[n].matched_features)
                 /\ SeqToSet(Results[n].matched_features)
                        = PositiveKeys(Results[n].features)
                 /\ Len(Results[n].matched_features)
                        = Cardinality(PositiveKeys(Results[n].features))

\* a truncated list of two results with different names and confidences,
\* one of them with features that are 0
C24_Witness ==
    /\ Returned_OK
    /\ Len(Results) = 2
    /\ Cardinality(KeptIdx) > 2
    /\ Results[1].entry.name # Results[2].entry.name
    /\ Results[1].confidence # Results[2].confidence
    /\ \E n \in 1..2 : Results[n].feature_count \in 1..20


\* ------------------------------------------------------------------------
\* Scores of exact names, of name evidence and of context hints
\* ------------------------------------------------------------------------
ExactName(j) ==
    /\ QueryName # <<>>
    /\ call.entries[j].name.present
    /\ strip(lower(call.entries[j].name.value)) = QueryName
InResults(entry) == \E n \in 1..Len(Results) : Results[n].entry = entry

\* C25: an entry whose lower-cased, trimmed name equals the non-empty query
\* name scores at least 0.3 whatever its aliases, dob, nationality and
\* remarks, and is retained by the default threshold
C25_ExactNameRetained ==
    pc = "returned" =>
        \A j \in 1..Len(call.entries) :
            ExactName(j) =>
                /\ ~ret.raised
                /\ RGe(scored[j].score, <<3, 10>>)
                /\ j \in KeptIdx
                /\ Len(call.entries) <= call.max_results
                      => InResults(call.entries[j])

\* a one-character exact name (bigram feature 0) retained although the
\* query's dob and nationality contradict the entry's
C25_Witness ==
    /\ Returned_OK
    /\ Len(call.entries) = 1
    /\ ExactName(1)
    /\ Len(QueryName) = 1
    /\ scored[1].features.ngram_similarity = Zero
    /\ query_parsed.dob = Some(S_1980)
    /\ call.entries[1].dob = Some(S_1999)
    /\ query_parsed.nationality = Some(S_x)
    /\ call.entries[1].nationality = Some(S_y)
    /\ InResults(call.entries[1])


NoHints == ~query_parsed.dob.present /\ ~query_parsed.nationality.present
NameEvidenceBound == R(81, 116)

\* C26: without dob and nationality hints and without aliases the score is
\* at most 8.1/11.6, which is below 0.8, so the confidence is never HIGH;
\* and every score is strictly below 1.0
C26_NameEvidenceBelowHigh ==
    pc = "returned" =>
        /\ RLt(NameEvidenceBound, <<4, 5>>)
        /\ \A j \in 1..Len(scored) :
              /\ RLt(scored[j].score, One)
              /\ (NoHints /\ scored[j].entry.aliases = <<>>) =>
                    /\ RLe(scored[j].score, NameEvidenceBound)
                    /\ _score_to_confidence(scored[j].score) # "HIGH"
                    /\ \A n \in 1..Len(Results) :
                          Results[n].entry = scored[j].entry
                              => Results[n].confidence # "HIGH"

\* a name-only match that reaches the bound 8.1/11.6 exactly
C26_Witness ==
    /\ Returned_OK
    /\ NoHints
    /\ Len(Results) = 1
    /\ Results[1].entry.aliases = <<>>
    /\ Results[1].entry.dob = Some(S_1980)
    /\ Results[1].score = NameEvidenceBound
    /\ Results[1].confidence = "MEDIUM-HIGH"


ContextKeys == {"dob_exact_match", "dob_partial_match", "nationality_match",
                "country_in_remarks"}
\* the query cut down to its name segment
NameSegment == split_on(call.query, 44)[1]
HasHints == query_parsed.dob.present \/ query_parsed.nationality.present
\* what the extractor returns for the name segment alone
NameOnly(entry) == Extract(_parse_query(NameSegment), entry)

\* C27: adding a dob or nationality segment to the query never decreases
\* the score of an entry: the 17 name and alias features are unchanged and
\* the four context features are non-negative
C27_HintsNeverLower ==
    (pc = "returned" /\ HasHints) =>
        \A j \in 1..Len(scored) :
            LET base == NameOnly(scored[j].entry).features
            IN /\ \A k \in DOMAIN base \ ContextKeys :
                     scored[j].features[k] = base[k]
               /\ \A k \in ContextKeys : RGe(scored[j].features[k], Zero)
               /\ RGe(scored[j].score,
                      _calculate_score(feature_weights, base))

\* a query whose dob and nationality both contradict the entry's: the
\* score equals the name-only score
C27_Witness ==
    /\ Returned_OK
    /\ Len(scored) = 1
    /\ query_parsed.dob = Some(S_1980)
    /\ scored[1].entry.dob = Some(S_1999)
    /\ query_parsed.nationality = Some(S_x)
    /\ scored[1].entry.nationality = Some(S_y)
    /\ scored[1].entry.remarks = None
    /\ scored[1].score =
           _calculate_score(feature_weights, NameOnly(scored[1].entry).features)
    /\ RGt(scored[1].score, Zero)


\* C28: entries produced by load_entries carry neither dob nor nationality,
\* so dob_exact_match, dob_partial_match and nationality_match are 0.0 for
\* every query screened against them
C28_LoadedEntriesHaveNoContext ==
    /\ Loaded =>
          \A n \in 1..Len(loaded) :
              loaded[n].dob = None /\ loaded[n].nationality = None
    /\ (Loaded /\ pc = "returned" /\ call.entries = loaded) =>
          \A j \in 1..Len(scored) :
              /\ scored[j].features.dob_exact_match = Zero
              /\ scored[j].features.dob_partial_match = Zero
              /\ scored[j].features.nationality_match = Zero

\* a query with dob and nationality hints against a loaded entry whose
\* details hold that date and that nationality: country_in_remarks alone
\* is non-zero
C28_Witness ==
    /\ Loaded
    /\ Returned_OK
    /\ call.entries = loaded
    /\ query_parsed.dob = Some(S_1980)
    /\ query_parsed.nationality = Some(S_x)
    /\ \E j \in 1..Len(scored) :
          /\ scored[j].entry.remarks = Some(S_DobNat)
          /\ scored[j].features.country_in_remarks = One
          /\ scored[j].features.dob_exact_match = Zero


\* C29: the aliases of a party survive the converter and the loader: the
\* entry loaded from the row the converter wrote for a party has exactly
\* the party's aliases, whatever sections follow the Aliases section
Converted == xml_parties # <<>> /\ pc # "convert"
C29_AliasesRoundTrip ==
    (Converted /\ Loaded) =>
        /\ Len(loaded) = Len(xml_parties)
        /\ \A n \in 1..Len(loaded) :
              loaded[n].aliases = xml_parties[n].aliases

\* C30: after the conversion and the import the sanctions table holds one
\* row for each distinct uid, with the name and the details the converter
\* wrote for it, and importing the same file again inserts nothing and
\* counts every row as updated
ConvertedRows == [n \in 1..Len(xml_parties) |-> ConvertRow(xml_parties[n])]
Uids == {xml_parties[n].fixed_ref : n \in 1..Len(xml_parties)}
C30_ImportPreservesRecords ==
    (Converted /\ import_history # <<>>) =>
        /\ Len(sanctions) = Cardinality(Uids)
        /\ \A n \in 1..Len(sanctions) :
              \E m \in 1..Len(ConvertedRows) :
                  /\ sanctions[n].uid = Some(ConvertedRows[m][1])
                  /\ sanctions[n].name = Some(ConvertedRows[m][2])
                  /\ sanctions[n].details = ConvertedRows[m][3]
        /\ Len(import_history) >= 2 =>
              /\ import_history[2].imported = 0
              /\ import_history[2].updated = Len(xml_parties)

====
